---- MODULE Spec2Model ----
(***************************************************************************)
(* Hex-world assembly pipeline of arc-citadel's worldgen package:          *)
(* LayoutSolver, ClusterGenerator, ConnectorGenerator, FillerGenerator and *)
(* WorldAssembler, each as a state machine over the same variables.        *)
(* A coordinate is a pair <<q, r>> of axial integers.                      *)
(***************************************************************************)
EXTENDS Integers, Naturals, Sequences, FiniteSets, TLC

VARIABLES
    pc,                 \* position of the running component
    world_radius,       \* seed.world_radius / generate_fillers argument
    clusters,           \* sequence of footprints, in dict iteration order
    positions,          \* LayoutSolver.solve: positions committed so far
    placed_footprints,  \* LayoutSolver.solve: cumulative placed cells
    attempts,           \* _find_valid_position: draws used for the current cluster
    hexes,              \* hex_map.hexes: key -> terrain of the WorldHex stored there
    writes,             \* history: key -> number of assignments hex_map.hexes[key] = ...
    max_iterations,     \* FillerGenerator.max_iterations
    wave,               \* generate_fillers: key -> WaveCell
    frontier,           \* generate_fillers: set of keys
    iteration,          \* generate_fillers: loop counter
    constraint,         \* PathConstraint: start, end, avoid_positions
    max_deviation,      \* ConnectorGenerator.max_deviation
    open_set,           \* _find_elastic_path: entries (g + h, g, position, path)
    visited,            \* _find_elastic_path: expanded positions
    path_coords,        \* generate: the path _find_elastic_path returned
    generator,          \* what stands behind _generate_single_hex: "mock", "llm", "wellformed"
    size,               \* ClusterGenerator.generate argument
    founding_context,   \* ClusterGenerator._current_founding_context
    cluster_hexes,      \* generate: hexes, key -> TaggedHex
    cluster_frontier,   \* generate: frontier, a queue of coordinates
    popped,             \* generate: (q, r) popped from the frontier
    edges_to_expand,    \* generate: edges left in the for loop
    cluster,            \* generate: what the HexCluster constructor gave
    assembled_clusters, \* _place_clusters: the AssembledCluster list with its tagged hexes
    seed_connectors,    \* seed.connectors
    place_at,           \* _place_clusters: <<cluster, hex>> the write loop is at
    connector_at,       \* _generate_connectors: index of the assignment the loop is at
    seed_clusters,      \* seed.clusters, each with what cluster_generator.generate does for it
    rng_stream,         \* random.Random(seed): the values of its stream read so far
    rng_at,             \* random.Random(seed): how many of them this invocation has read
    repeat,             \* invocations with the same arguments still to come
    first_result,       \* what the first of two invocations gave
    call,               \* a function called on its own: the arguments of the call
    result,             \* a function called on its own: what it returned
    connector_type,     \* ConnectorGenerator.generate argument
    elastic_segments,   \* ConnectorGenerator.generate argument
    connector_hexes,    \* generate: connector_hexes; result inside _apply_elastic_segments
    segment_at,         \* _apply_elastic_segments: index of the segment the loop is at
    collection          \* generate: the ConnectorCollection returned

layoutVars == <<world_radius, clusters, positions, placed_footprints, attempts>>
mapVars == <<hexes, writes>>
fillerVars == <<max_iterations, wave, frontier, iteration>>
connVars == <<constraint, max_deviation, open_set, visited, path_coords>>
clusterVars == <<generator, size, founding_context, cluster_hexes, cluster_frontier,
                 popped, edges_to_expand, cluster>>
assembleVars == <<assembled_clusters, seed_connectors, place_at, connector_at,
                  seed_clusters>>
replayVars == <<rng_stream, rng_at, repeat, first_result>>
validatorVars == <<call, result>>
collectionVars == <<connector_type, elastic_segments, connector_hexes, segment_at,
                    collection>>
vars == <<pc, layoutVars, mapVars, fillerVars, connVars, clusterVars, assembleVars,
          replayVars, validatorVars, collectionVars>>

----------------------------------------------------------------------------
(* Bounds of the model *)

MaxRadius == 2
MaxClusters == 2
\* LayoutSolver.max_attempts is 1000 in the code; the model gives up sooner
MaxAttempts == 2
\* largest world radius the filler is run on
FillerRadius == 1
\* the small max_iterations a FillerGenerator is constructed with
IterationCap == 2

\* the end coordinate of a connector lies this close to the origin
ConnectorSpan == 2
\* largest max_deviation a ConnectorGenerator is constructed with
DeviationCap == 1

\* largest size generate() is called with when the content generator is free
MaxSize == 3
\* largest size generate() is called with under the mock of the tests
MockSize == 8

\* world radius of the seeds that are assembled
AssembleRadius == 1
\* a generated settlement cluster holds 20 hexes in the code; the model keeps
\* the seed hex and at most this many more
SettlementExtra == 1

\* largest world radius solve() is invoked twice on
RepeatRadius == 1
\* most cells left empty on a map generate_fillers is invoked twice on
RefillEmpty == 2

(* Program constants *)

\* ConnectorGenerator.__init__: max_deviation: int = 3
DefaultMaxDeviation == 3

\* FillerGenerator.__init__: max_iterations: int = 10000
DefaultMaxIterations == 10000

----------------------------------------------------------------------------
(* hex_coords.py *)

Abs(x) == IF x < 0 THEN -x ELSE x

Max2(a, b) == IF a >= b THEN a ELSE b

Max3(a, b, c) == Max2(a, Max2(b, c))

HEX_NEIGHBOR_OFFSETS ==
    << <<1, 0>>, <<1, -1>>, <<0, -1>>, <<-1, 0>>, <<-1, 1>>, <<0, 1>> >>

Edges == 0..5

\* edge is 0-based as in the code; the tuple above is 1-based
get_neighbor(q, r, edge) ==
    <<q + HEX_NEIGHBOR_OFFSETS[edge + 1][1], r + HEX_NEIGHBOR_OFFSETS[edge + 1][2]>>

get_opposite_edge(edge) == (edge + 3) % 6

get_all_neighbors(q, r) == {get_neighbor(q, r, e) : e \in Edges}

distance(q1, r1, q2, r2) ==
    (Abs(q1 - q2) + Abs(q1 + r1 - q2 - r2) + Abs(r1 - r2)) \div 2

\* the key "q,r" of a coordinate, and back
coords_to_key(q, r) == <<q, r>>

key_to_coords(key) == <<key[1], key[2]>>

----------------------------------------------------------------------------
(* assembly/layout_solver.py *)

\* the footprints the model places: a single cell, the assembler's minimal
\* footprint, and a shape that does not hold its own origin
Footprints ==
    { {<<0, 0>>},
      {<<0, 0>>, <<1, 0>>, <<0, 1>>},
      {<<1, 0>>, <<1, -1>>} }

AbsoluteCells(footprint, position) ==
    {<<position[1] + offset[1], position[2] + offset[2]>> : offset \in footprint}

IsValidPositionNoBoundsCheck(footprint, position, placed, radius) ==
    \A offset \in footprint :
        LET world_q == position[1] + offset[1]
            world_r == position[2] + offset[2]
        IN  <<world_q, world_r>> \notin placed

IsValidPositionNoOverlapCheck(footprint, position, placed, radius) ==
    \A offset \in footprint :
        LET world_q == position[1] + offset[1]
            world_r == position[2] + offset[2]
        IN  ~(Abs(world_q) + Abs(world_r) > radius)

_is_valid_position(footprint, position, placed, radius) ==
    \A offset \in footprint :
        LET world_q == position[1] + offset[1]
            world_r == position[2] + offset[2]
        IN  /\ ~(Abs(world_q) + Abs(world_r) > radius)
            /\ <<world_q, world_r>> \notin placed

\* index of the cluster solve() is placing
CurrentCluster == Len(positions) + 1

\* random.random and random.randint of the module: nothing fixes the draw
GlobalRandint(radius) == ((-radius)..radius) \X ((-radius)..radius)

\* the pairs the two calls rng.randint(-radius, radius) can give: a Random
\* constructed from the same seed gives the same stream, so a position of the
\* stream that was read before gives what it gave then
randint(radius) ==
    IF rng_at < Len(rng_stream) THEN {rng_stream[rng_at + 1]}
    ELSE ((-radius)..radius) \X ((-radius)..radius)

\* the rng has given draw; the stream is kept while an invocation that will
\* read it again is still to come
RngAdvance(draw) ==
    LET replaying == rng_at < Len(rng_stream)
    IN  /\ rng_stream' = IF repeat > 0 /\ ~replaying THEN Append(rng_stream, draw)
                          ELSE rng_stream
        /\ rng_at' = IF repeat > 0 \/ replaying THEN rng_at + 1 ELSE rng_at

\* one draw of _find_valid_position that is accepted: solve() commits it
LayoutPlace ==
    /\ pc = "layout"
    /\ CurrentCluster <= Len(clusters)
    /\ \E draw \in randint(world_radius) :
        LET q == draw[1]
            r == draw[2]
        IN  /\ Abs(q + r) <= world_radius
            /\ _is_valid_position(clusters[CurrentCluster], <<q, r>>,
                                  placed_footprints, world_radius)
            /\ positions' = Append(positions, <<q, r>>)
            /\ placed_footprints' =
                   placed_footprints \cup AbsoluteCells(clusters[CurrentCluster], <<q, r>>)
            /\ RngAdvance(draw)
    /\ attempts' = 0
    /\ pc' = IF CurrentCluster = Len(clusters) THEN "layout_done" ELSE "layout"
    /\ UNCHANGED <<world_radius, clusters, repeat, first_result, validatorVars, collectionVars>>
    /\ UNCHANGED <<mapVars, fillerVars, connVars, clusterVars, assembleVars>>

\* one draw that is rejected; the last one makes solve() raise ValueError
LayoutReject ==
    /\ pc = "layout"
    /\ CurrentCluster <= Len(clusters)
    /\ \E draw \in randint(world_radius) :
        LET q == draw[1]
            r == draw[2]
        IN  /\ ~(/\ Abs(q + r) <= world_radius
                 /\ _is_valid_position(clusters[CurrentCluster], <<q, r>>,
                                       placed_footprints, world_radius))
            /\ RngAdvance(draw)
    /\ attempts' = attempts + 1
    /\ pc' = IF attempts + 1 >= MaxAttempts THEN "layout_failed" ELSE "layout"
    /\ UNCHANGED <<world_radius, clusters, positions, placed_footprints>>
    /\ UNCHANGED <<repeat, first_result, validatorVars, collectionVars>>
    /\ UNCHANGED <<mapVars, fillerVars, connVars, clusterVars, assembleVars>>

\* the variables of a component that is not running
EmptyMap == [k \in {} |-> "plains"]

NoWrites == [k \in {} |-> 0]

IdleMap == hexes = EmptyMap /\ writes = NoWrites

IdleFiller ==
    /\ max_iterations = DefaultMaxIterations
    /\ wave = EmptyMap
    /\ frontier = {}
    /\ iteration = 0

NoConstraint == [start |-> <<0, 0>>, end |-> <<0, 0>>, avoid_positions |-> {}]

IdleConnector ==
    /\ constraint = NoConstraint
    /\ max_deviation = DefaultMaxDeviation
    /\ open_set = {}
    /\ visited = {}
    /\ path_coords = <<>>

\* generate() called without a founding_context
NoContext ==
    [present |-> FALSE, bias_tags |-> <<>>, bias_against |-> <<>>,
     siege_mentality |-> FALSE, martial_culture |-> 0]

IdleCluster ==
    /\ generator = "mock"
    /\ size = 0
    /\ founding_context = NoContext
    /\ cluster_hexes = EmptyMap
    /\ cluster_frontier = <<>>
    /\ popped = <<0, 0>>
    /\ edges_to_expand = <<>>
    /\ cluster = "none"

IdleAssemble ==
    /\ assembled_clusters = <<>>
    /\ seed_connectors = <<>>
    /\ place_at = <<1, 1>>
    /\ connector_at = 1
    /\ seed_clusters = <<>>

NoResult ==
    [present |-> FALSE, outcome |-> "none", positions |-> <<>>, hexes |-> EmptyMap]

\* a single invocation: nothing is replayed
IdleReplay ==
    /\ rng_stream = <<>>
    /\ rng_at = 0
    /\ repeat = 0
    /\ first_result = NoResult

NoValidation == [valid |-> TRUE, errors |-> {}, named |-> {}, warnings |-> {}]

\* no call of the validator is under way
IdleValidator ==
    /\ call = [hex_a |-> <<>>, hex_b |-> <<>>, edge |-> 0, founding_context |-> NoContext]
    /\ result = NoValidation

NoCollection ==
    [hexes |-> <<>>, internal_graph |-> <<>>, minor_slots |-> <<>>, entry_points |-> <<>>]

\* no connector is being put together
IdleCollection ==
    /\ connector_type = "trade_route_major"
    /\ elastic_segments = <<>>
    /\ connector_hexes = <<>>
    /\ segment_at = 1
    /\ collection = NoCollection

IdleLayout ==
    /\ clusters = <<>>
    /\ positions = <<>>
    /\ placed_footprints = {}
    /\ attempts = 0

InitLayout ==
    /\ pc = "layout"
    /\ IdleReplay
    /\ IdleValidator
    /\ IdleCollection
    /\ IdleMap
    /\ IdleFiller
    /\ IdleConnector
    /\ IdleCluster
    /\ IdleAssemble
    /\ world_radius \in 0..MaxRadius
    /\ clusters \in UNION {[1..n -> Footprints] : n \in 1..MaxClusters}
    /\ positions = <<>>
    /\ placed_footprints = {}
    /\ attempts = 0

NextLayout == LayoutPlace \/ LayoutReject

SpecLayout == InitLayout /\ [][NextLayout]_vars

----------------------------------------------------------------------------
(* C1: in every layout solve() returns, no absolute cell of one cluster is *)
(* an absolute cell of another cluster.                                     *)

NoOverlap ==
    pc = "layout_done" =>
        \A i, j \in 1..Len(positions) :
            i # j =>
                AbsoluteCells(clusters[i], positions[i])
                    \cap AbsoluteCells(clusters[j], positions[j]) = {}

NoOverlapWitness ==
    /\ pc = "layout_done"
    /\ Len(positions) = 2
    /\ Cardinality(clusters[1]) > 1
    /\ Cardinality(clusters[2]) > 1

----------------------------------------------------------------------------
(* C11: every absolute cell (position + offset) of every cluster solve()   *)
(* has placed satisfies |q| + |r| <= world_radius, whatever the footprint   *)
(* and whatever the draws.                                                  *)

FootprintsInBounds ==
    \A i \in 1..Len(positions) :
        \A cell \in AbsoluteCells(clusters[i], positions[i]) :
            Abs(cell[1]) + Abs(cell[2]) <= world_radius

\* two clusters placed, the second of a shape that does not hold its own
\* origin, at a position other than the centre
FootprintsInBoundsWitness ==
    /\ pc = "layout_done"
    /\ Len(positions) = 2
    /\ <<0, 0>> \notin clusters[2]
    /\ positions[2] # <<0, 0>>

----------------------------------------------------------------------------
(* filler_generator.py *)

\* generation/hex_tags.toml is not among the sources.  The configuration
\* below has the shape FillerGenerator.__init__ reads: the TERRAIN values
\* (the four the generation prompt lists) and a terrain -> terrain
\* transition table.  No transition weight is zero, so a weighted collapse
\* can return every tag of the possibility set.  The sets of surface and
\* underwater are disjoint, so a cell between the two has no tag left.
AllTerrainTags == {"surface", "underground", "underwater", "aerial"}

Transitions ==
    [surface |-> {"surface", "underground", "aerial"},
     underground |-> {"underground", "surface"},
     underwater |-> {"underwater"},
     aerial |-> {"aerial", "surface"}]

\* terrains of the hexes clusters and connectors put on the map
FixedTerrains == {"plains", "deep_water"}

_extract_terrain_tag(terrain) ==
    CASE terrain \in {"underground", "cavern"} -> "underground"
      [] terrain = "deep_water" -> "underwater"
      [] terrain = "high_mountains" -> "elevated"
      [] OTHER -> "surface"

\* the terrain of the WorldHex _create_filler_hex builds
_create_filler_hex(terrain_tag) ==
    CASE terrain_tag = "surface" -> "plains"
      [] terrain_tag = "underground" -> "underground"
      [] terrain_tag = "underwater" -> "deep_water"
      [] terrain_tag = "aerial" -> "high_mountains"
      [] terrain_tag = "elevated" -> "hills"
      [] terrain_tag = "peak" -> "high_mountains"
      [] OTHER -> "plains"

\* set(self.transitions[tag]) when tag is a key of the table, else no constraint
Compatible(tag) ==
    IF tag \in DOMAIN Transitions THEN Transitions[tag] ELSE AllTerrainTags

SquareRange(radius) == (-radius)..radius

FindEmptyPositionsDiamond(fixed, radius) ==
    {coords_to_key(q, r) : <<q, r>> \in
        {c \in SquareRange(radius) \X SquareRange(radius) :
            /\ Abs(c[1]) + Abs(c[2]) <= radius
            /\ coords_to_key(c[1], c[2]) \notin fixed}}

_find_empty_positions(fixed, radius) ==
    {coords_to_key(q, r) : <<q, r>> \in
        {c \in SquareRange(radius) \X SquareRange(radius) :
            /\ Max3(Abs(c[1]), Abs(c[2]), Abs(-c[1] - c[2])) <= radius
            /\ coords_to_key(c[1], c[2]) \notin fixed}}

RECURSIVE IntersectAll(_, _)
IntersectAll(acc, sets) ==
    IF sets = {} THEN acc
    ELSE LET s == CHOOSE x \in sets : TRUE
         IN  IntersectAll(acc \cap s, sets \ {s})

WaveCell(possible) ==
    [possible_tags |-> possible, collapsed |-> FALSE, chosen_tag |-> "None"]

InitializeWaveNoFallback(empty, fixed, hex_map) ==
    [pos_key \in empty |->
        LET c == key_to_coords(pos_key)
            constraining ==
                {nkey \in get_all_neighbors(c[1], c[2]) :
                    nkey \in fixed /\ nkey \in DOMAIN hex_map}
        IN  WaveCell(IntersectAll(AllTerrainTags,
                {Compatible(_extract_terrain_tag(hex_map[nkey])) :
                    nkey \in constraining}))]

_initialize_wave(empty, fixed, hex_map) ==
    [pos_key \in empty |->
        LET c == key_to_coords(pos_key)
            constraining ==
                {nkey \in get_all_neighbors(c[1], c[2]) :
                    nkey \in fixed /\ nkey \in DOMAIN hex_map}
            possible ==
                IntersectAll(AllTerrainTags,
                    {Compatible(_extract_terrain_tag(hex_map[nkey])) :
                        nkey \in constraining})
        IN  WaveCell(IF possible = {} THEN {"surface"} ELSE possible)]

_build_initial_frontier(empty, fixed) ==
    {pos_key \in empty :
        LET c == key_to_coords(pos_key)
        IN  \E nkey \in get_all_neighbors(c[1], c[2]) : nkey \in fixed}

\* the keys _select_min_entropy can return: an uncollapsed frontier cell with
\* the fewest possible tags (the random term, below 0.1, only breaks ties)
_select_min_entropy(front, w) ==
    LET live == {k \in front : k \in DOMAIN w /\ ~w[k].collapsed}
    IN  {k \in live :
            \A other \in live :
                Cardinality(w[k].possible_tags) <= Cardinality(w[other].possible_tags)}

\* the tags _collapse can return; None becomes "surface" in generate_fillers
_collapse(cell) ==
    IF cell.possible_tags = {} THEN {"surface"} ELSE cell.possible_tags

\* possible_tags of cell pos_key after _propagate_constraints
_propagate_constraints(pos_key, w, hex_map) ==
    LET c == key_to_coords(pos_key)
        neighbors == get_all_neighbors(c[1], c[2])
        from_wave ==
            {Compatible(w[nkey].chosen_tag) :
                nkey \in {n \in neighbors : n \in DOMAIN w /\ w[n].collapsed}}
        from_map ==
            {Compatible(_extract_terrain_tag(hex_map[nkey])) :
                nkey \in {n \in neighbors : n \in DOMAIN hex_map}}
        possible == IntersectAll(w[pos_key].possible_tags, from_wave \cup from_map)
    IN  IF possible = {} THEN {"surface"} ELSE possible

\* hex_map.hexes[key] = a hex of this terrain
Store(hex_map, key, terrain) ==
    [k \in DOMAIN hex_map \cup {key} |-> IF k = key THEN terrain ELSE hex_map[k]]

Count(w, key) ==
    [k \in DOMAIN w \cup {key} |->
        IF k = key THEN (IF key \in DOMAIN w THEN w[key] + 1 ELSE 1) ELSE w[k]]

\* the neighbours the collapse of (q, r) constrains and adds to the frontier
NeighborsToPropagate(q, r, w, front) ==
    {nkey \in get_all_neighbors(q, r) :
        nkey \in DOMAIN w /\ ~w[nkey].collapsed /\ nkey \notin front}

\* generate_fillers, steps 1 to 4
FillerStart ==
    /\ pc = "filler"
    /\ LET fixed_positions == DOMAIN hexes
           empty_positions == _find_empty_positions(fixed_positions, world_radius)
       IN  IF empty_positions = {}
           THEN /\ pc' = "filler_done"
                /\ UNCHANGED <<wave, frontier>>
           ELSE /\ pc' = "filler_loop"
                /\ wave' = _initialize_wave(empty_positions, fixed_positions, hexes)
                /\ frontier' = _build_initial_frontier(empty_positions, fixed_positions)
    /\ iteration' = 0
    /\ UNCHANGED <<layoutVars, mapVars, max_iterations, connVars, clusterVars, assembleVars>>
    /\ UNCHANGED <<replayVars, validatorVars, collectionVars>>

\* one iteration of the constraint propagation loop
FillerCollapse ==
    /\ pc = "filler_loop"
    /\ frontier # {}
    /\ iteration < max_iterations
    /\ \E pos_key \in _select_min_entropy(frontier, wave) :
       \E chosen_terrain \in _collapse(wave[pos_key]) :
          LET c == key_to_coords(pos_key)
              collapsed_wave ==
                  [wave EXCEPT ![pos_key] =
                      [possible_tags |-> @.possible_tags, collapsed |-> TRUE,
                       chosen_tag |-> chosen_terrain]]
              new_map == Store(hexes, pos_key, _create_filler_hex(chosen_terrain))
              added == NeighborsToPropagate(c[1], c[2], collapsed_wave,
                                            frontier \ {pos_key})
          IN  /\ hexes' = new_map
              /\ writes' = Count(writes, pos_key)
              /\ wave' =
                    [k \in DOMAIN wave |->
                        IF k \in added
                        THEN [collapsed_wave[k] EXCEPT !.possible_tags =
                                 _propagate_constraints(k, collapsed_wave, new_map)]
                        ELSE collapsed_wave[k]]
              /\ frontier' = (frontier \ {pos_key}) \cup added
    /\ iteration' = iteration + 1
    /\ pc' = "filler_loop"
    /\ UNCHANGED <<layoutVars, max_iterations, connVars, clusterVars, assembleVars>>
    /\ UNCHANGED <<replayVars, validatorVars, collectionVars>>

StoreNothing(hex_map, keys, terrain) == hex_map

RECURSIVE StoreAll(_, _, _)
StoreAll(hex_map, keys, terrain) ==
    IF keys = {} THEN hex_map
    ELSE LET k == CHOOSE x \in keys : TRUE
         IN  StoreAll(Store(hex_map, k, terrain), keys \ {k}, terrain)

RECURSIVE CountAll(_, _)
CountAll(w, keys) ==
    IF keys = {} THEN w
    ELSE LET k == CHOOSE x \in keys : TRUE
         IN  CountAll(Count(w, k), keys \ {k})

\* the loop ends (frontier exhausted, cap hit or nothing to select) and
\* step 6 fills every uncollapsed cell with the fallback
FillerFinish ==
    /\ pc = "filler_loop"
    /\ \/ frontier = {}
       \/ ~(iteration < max_iterations)
       \/ _select_min_entropy(frontier, wave) = {}
    /\ LET remaining == {pos_key \in DOMAIN wave : ~wave[pos_key].collapsed}
       IN  /\ hexes' = StoreAll(hexes, remaining, _create_filler_hex("surface"))
           /\ writes' = CountAll(writes, remaining)
    /\ pc' = "filler_done"
    /\ UNCHANGED <<layoutVars, fillerVars, connVars, clusterVars, assembleVars>>
    /\ UNCHANGED <<replayVars, validatorVars, collectionVars>>

\* a map with some hexes already fixed
FixedMaps(radius) ==
    UNION {[fixed -> FixedTerrains] :
        fixed \in SUBSET _find_empty_positions({}, radius)}

InitFiller ==
    /\ pc = "filler"
    /\ IdleReplay
    /\ IdleValidator
    /\ IdleCollection
    /\ IdleLayout
    /\ IdleConnector
    /\ IdleCluster
    /\ IdleAssemble
    /\ world_radius \in 0..FillerRadius
    /\ hexes \in FixedMaps(world_radius)
    /\ writes = [k \in DOMAIN hexes |-> 1]
    /\ max_iterations \in {IterationCap, DefaultMaxIterations}
    /\ wave = EmptyMap
    /\ frontier = {}
    /\ iteration = 0

NextFiller == FillerStart \/ FillerCollapse \/ FillerFinish

SpecFiller == InitFiller /\ [][NextFiller]_vars

\* generate_fillers is sequential code: a step that can run, runs
SpecFillerFair == SpecFiller /\ WF_vars(NextFiller)

----------------------------------------------------------------------------
(* C2: after generate_fillers returns, every coordinate of the disc        *)
(* max(|q|, |r|, |q+r|) <= world_radius has an entry in hex_map.hexes, also *)
(* when the iteration cap stopped the loop and when no hex was fixed.       *)

InDisc(q, r, radius) == Max3(Abs(q), Abs(r), Abs(q + r)) <= radius

FullCoverage ==
    pc = "filler_done" =>
        \A q \in SquareRange(world_radius + 1), r \in SquareRange(world_radius + 1) :
            InDisc(q, r, world_radius) => coords_to_key(q, r) \in DOMAIN hexes

FullCoverageWitness ==
    /\ pc = "filler_done"
    /\ world_radius >= 1
    /\ iteration = max_iterations
    /\ \E k \in DOMAIN wave : ~wave[k].collapsed
    /\ \E k \in DOMAIN wave : wave[k].collapsed

----------------------------------------------------------------------------
(* C7: whenever the filler collapses a cell, the chosen tag is allowed by   *)
(* the transition set of every neighbour that is fixed or was collapsed     *)
(* earlier (also of a neighbour that collapsed while the cell was already   *)
(* in the frontier), unless the intersection of those sets is empty and the *)
(* cell fell back to surface.                                               *)

\* the transition set of a neighbour that is on the map: of its chosen tag
\* when the filler collapsed it, of its terrain's tag when it was fixed
NeighborAllows(nkey) ==
    IF nkey \in DOMAIN wave
    THEN Compatible(wave[nkey].chosen_tag)
    ELSE Compatible(_extract_terrain_tag(hexes[nkey]))

AllowedByNeighbors(pos_key) ==
    LET c == key_to_coords(pos_key)
    IN  IntersectAll(AllTerrainTags,
            {NeighborAllows(nkey) :
                nkey \in {n \in get_all_neighbors(c[1], c[2]) : n \in DOMAIN hexes}})

CollapseConsistentWithNeighbors ==
    [][\A pos_key \in DOMAIN wave :
          (/\ pc = "filler_loop"
           /\ pc' = "filler_loop"
           /\ ~wave[pos_key].collapsed
           /\ wave'[pos_key].collapsed)
          => \/ wave'[pos_key].chosen_tag \in AllowedByNeighbors(pos_key)
             \/ /\ AllowedByNeighbors(pos_key) = {}
                /\ wave'[pos_key].chosen_tag = "surface"]_vars

----------------------------------------------------------------------------
(* C18: at every point of the filler pass each uncollapsed cell has a       *)
(* non-empty possibility set, an empty intersection having been replaced by *)
(* {surface}; every collapsed cell has been given a terrain tag, so no      *)
(* contradiction stops generate_fillers.                                    *)

NoEmptyPossibility ==
    \A pos_key \in DOMAIN wave :
        IF wave[pos_key].collapsed
        THEN wave[pos_key].chosen_tag \in AllTerrainTags
        ELSE wave[pos_key].possible_tags # {}

\* a cell whose fixed neighbours leave no tag was reset to {surface} and
\* has collapsed to it
NoEmptyPossibilityWitness ==
    /\ pc = "filler_loop"
    /\ \E pos_key \in DOMAIN wave :
          /\ wave[pos_key].collapsed
          /\ wave[pos_key].chosen_tag = "surface"
          /\ AllowedByNeighbors(pos_key) = {}

----------------------------------------------------------------------------
(* C10: every hex the filler adds satisfies |q| + |r| <= world_radius, the  *)
(* bound the layout solver enforces on cluster cells.                       *)

InDiamond(q, r, radius) == Abs(q) + Abs(r) <= radius

FillerUsesLayoutBound ==
    \A key \in DOMAIN wave :
        key \in DOMAIN hexes => InDiamond(key[1], key[2], world_radius)

----------------------------------------------------------------------------
(* connector_generator.py: pathfinding *)

\* the neighbour the greedy walk steps to: the first edge, in edge order,
\* whose neighbour is nearest to end
BestNeighbor(current, end) ==
    LET d(e) == LET n == get_neighbor(current[1], current[2], e)
                IN  distance(n[1], n[2], end[1], end[2])
        best == CHOOSE e \in Edges :
                    /\ \A o \in Edges : d(e) <= d(o)
                    /\ \A o \in Edges : d(o) = d(e) => e <= o
    IN  get_neighbor(current[1], current[2], best)

StraightLineEndpointsOnly(start, end) ==
    IF start = end THEN <<start>> ELSE <<start, end>>

StraightLineStartOnly(start, end) == <<start>>

RECURSIVE _straight_line_path(_, _)
_straight_line_path(start, end) ==
    IF start = end THEN <<start>>
    ELSE LET rest == {_straight_line_path(current, end) :
                         current \in {BestNeighbor(start, end)}}
         IN  <<start>> \o (CHOOSE path \in rest : TRUE)

\* an entry of open_set; the elasticity bonus, random() * 0.3, is below 1, so
\* the sort orders entries by g + h and orders equal g + h at random
Entry(g, position, path, end) ==
    [gh |-> g + distance(position[1], position[2], end[1], end[2]),
     g |-> g, position |-> position, path |-> path]

\* the entries open_set.pop(0) can return after the sort
FirstEntries(open) == {e \in open : \A o \in open : e.gh <= o.gh}

ExpansionsPrunedLate(entry, seen, c, deviation) ==
    LET straight_dist == distance(c.start[1], c.start[2], c.end[1], c.end[2])
    IN  {Entry(entry.g + 1, n, Append(entry.path, n), c.end) :
            n \in {m \in get_all_neighbors(entry.position[1], entry.position[2]) :
                    /\ m \notin seen
                    /\ m \notin c.avoid_positions
                    /\ ~((entry.g + 1 + distance(m[1], m[2], c.end[1], c.end[2]))
                            - straight_dist > deviation + 1)}}

\* the entries the neighbour loop appends for a popped entry
Expansions(entry, seen, c, deviation) ==
    LET straight_dist == distance(c.start[1], c.start[2], c.end[1], c.end[2])
    IN  {Entry(entry.g + 1, n, Append(entry.path, n), c.end) :
            n \in {m \in get_all_neighbors(entry.position[1], entry.position[2]) :
                    /\ m \notin seen
                    /\ m \notin c.avoid_positions
                    /\ ~((entry.g + 1 + distance(m[1], m[2], c.end[1], c.end[2]))
                            - straight_dist > deviation)}}

\* one iteration of the A* loop that pops the goal: the path is returned
AStarReturn ==
    /\ pc = "astar"
    /\ \E entry \in FirstEntries(open_set) :
        /\ entry.position = constraint.end
        /\ path_coords' = entry.path
        /\ open_set' = open_set \ {entry}
    /\ pc' = "path_done"
    /\ UNCHANGED <<layoutVars, mapVars, fillerVars, clusterVars, assembleVars>>
    /\ UNCHANGED <<constraint, max_deviation, visited>>
    /\ UNCHANGED <<replayVars, validatorVars, collectionVars>>

\* one iteration that pops a position expanded before
AStarSkip ==
    /\ pc = "astar"
    /\ \E entry \in FirstEntries(open_set) :
        /\ entry.position # constraint.end
        /\ entry.position \in visited
        /\ open_set' = open_set \ {entry}
    /\ UNCHANGED <<pc, layoutVars, mapVars, fillerVars, clusterVars, assembleVars>>
    /\ UNCHANGED <<constraint, max_deviation, visited, path_coords>>
    /\ UNCHANGED <<replayVars, validatorVars, collectionVars>>

\* one iteration that expands the popped position
AStarExpand ==
    /\ pc = "astar"
    /\ \E entry \in FirstEntries(open_set) :
        /\ entry.position # constraint.end
        /\ entry.position \notin visited
        /\ visited' = visited \cup {entry.position}
        /\ open_set' = (open_set \ {entry})
              \cup Expansions(entry, visited \cup {entry.position}, constraint,
                              max_deviation)
    /\ UNCHANGED <<pc, layoutVars, mapVars, fillerVars, clusterVars, assembleVars>>
    /\ UNCHANGED <<constraint, max_deviation, path_coords>>
    /\ UNCHANGED <<replayVars, validatorVars, collectionVars>>

\* the open set is empty: fall back to the straight line
AStarFallback ==
    /\ pc = "astar"
    /\ open_set = {}
    /\ path_coords' = _straight_line_path(constraint.start, constraint.end)
    /\ pc' = "path_done"
    /\ UNCHANGED <<layoutVars, mapVars, fillerVars, clusterVars, assembleVars>>
    /\ UNCHANGED <<constraint, max_deviation, open_set, visited>>
    /\ UNCHANGED <<replayVars, validatorVars, collectionVars>>

Disc(radius) ==
    {c \in SquareRange(radius) \X SquareRange(radius) :
        Max3(Abs(c[1]), Abs(c[2]), Abs(c[1] + c[2])) <= radius}

\* the start coordinates and the occupied coordinates the model draws from
PathStarts == {<<0, 0>>, <<1, 0>>}

ObstacleCells == {<<1, 0>>, <<0, 1>>, <<1, -1>>, <<2, 0>>, <<2, -1>>}

InitConnector ==
    /\ pc = "astar"
    /\ IdleReplay
    /\ IdleValidator
    /\ IdleCollection
    /\ IdleLayout
    /\ world_radius = 0
    /\ IdleMap
    /\ IdleFiller
    /\ IdleCluster
    /\ IdleAssemble
    /\ constraint \in [start : PathStarts, end : Disc(ConnectorSpan),
                       avoid_positions : SUBSET ObstacleCells]
    /\ max_deviation \in 0..DeviationCap
    /\ open_set = {Entry(0, constraint.start, <<constraint.start>>, constraint.start)}
    /\ visited = {}
    /\ path_coords = <<>>

NextConnector == AStarReturn \/ AStarSkip \/ AStarExpand \/ AStarFallback

SpecConnector == InitConnector /\ [][NextConnector]_vars

\* _find_elastic_path is a sequential loop: an iteration that can run, runs
SpecConnectorFair == SpecConnector /\ WF_vars(NextConnector)

----------------------------------------------------------------------------
(* C8: no occupied coordinate other than the two endpoints appears in the  *)
(* path computed for a connector, also when the end is itself occupied.     *)

PathAvoidsOccupied ==
    pc = "path_done" =>
        \A i \in 1..Len(path_coords) :
            path_coords[i] \in constraint.avoid_positions
                => path_coords[i] \in {constraint.start, constraint.end}

----------------------------------------------------------------------------
(* C9: the computed path begins at start, ends at end, and every two       *)
(* consecutive coordinates are hex neighbours, after the A* search and      *)
(* after the straight-line fallback.                                        *)

PathConnectsEndpoints ==
    pc = "path_done" =>
        /\ Len(path_coords) >= 1
        /\ path_coords[1] = constraint.start
        /\ path_coords[Len(path_coords)] = constraint.end
        /\ \A i \in 1..(Len(path_coords) - 1) :
              distance(path_coords[i][1], path_coords[i][2],
                       path_coords[i + 1][1], path_coords[i + 1][2]) = 1

\* the fallback produced a path of three hexes or more
PathConnectsEndpointsWitness ==
    /\ pc = "path_done"
    /\ constraint.end \in constraint.avoid_positions
    /\ visited # {}
    /\ open_set = {}
    /\ Len(path_coords) >= 3

----------------------------------------------------------------------------
(* schemas/tagged.py, adjacency.py *)

MATCHING_EDGES == {"tunnel", "road", "water"}

\* hard_constraints["incompatible_terrain"] of the tag configuration
IncompatibleTerrain == {{"underground", "aerial"}}

TaggedHex(q, r, tags, edge_types) ==
    [q |-> q, r |-> r, tags |-> tags, edge_types |-> edge_types]

Values(f) == {f[x] : x \in DOMAIN f}

\* the first tag of the list that is a terrain tag, "none" when there is none
RECURSIVE _get_terrain_tag(_)
_get_terrain_tag(tags) ==
    IF tags = <<>> THEN "none"
    ELSE IF Head(tags) \in AllTerrainTags THEN Head(tags)
    ELSE _get_terrain_tag(Tail(tags))

ValidateAdjacencyOneSided(hex_a, hex_b, edge) ==
    LET terrain_a == _get_terrain_tag(hex_a.tags)
        terrain_b == _get_terrain_tag(hex_b.tags)
        edge_from_a == hex_a.edge_types[edge]
        edge_from_b == hex_b.edge_types[get_opposite_edge(edge)]
    IN  (IF /\ terrain_a # "none"
            /\ terrain_b # "none"
            /\ {terrain_a, terrain_b} \in IncompatibleTerrain
         THEN {"TERRAIN incompatible"} ELSE {})
        \cup
        (IF edge_from_a \in MATCHING_EDGES /\ edge_from_a # edge_from_b
         THEN {"Edge mismatch"} ELSE {})

\* the errors of the ValidationResult
validate_adjacency(hex_a, hex_b, edge) ==
    LET terrain_a == _get_terrain_tag(hex_a.tags)
        terrain_b == _get_terrain_tag(hex_b.tags)
        edge_from_a == hex_a.edge_types[edge]
        edge_from_b == hex_b.edge_types[get_opposite_edge(edge)]
    IN  (IF /\ terrain_a # "none"
            /\ terrain_b # "none"
            /\ {terrain_a, terrain_b} \in IncompatibleTerrain
         THEN {"TERRAIN incompatible"} ELSE {})
        \cup
        (IF /\ (edge_from_a \in MATCHING_EDGES \/ edge_from_b \in MATCHING_EDGES)
            /\ edge_from_a # edge_from_b
         THEN {"Edge mismatch"} ELSE {})

ValidateFoundingPreferredRequired(hex, ctx) ==
    IF ~ctx.present THEN {}
    ELSE (IF Values(hex.tags) \cap Values(ctx.bias_against) # {}
          THEN {"FOUNDING violation"} ELSE {})
         \cup
         (IF ctx.bias_tags # <<>> /\ Values(hex.tags) \cap Values(ctx.bias_tags) = {}
          THEN {"FOUNDING suggestion"} ELSE {})

\* the errors of the ValidationResult
validate_founding_constraints(hex, ctx) ==
    IF ~ctx.present THEN {}
    ELSE IF Values(hex.tags) \cap Values(ctx.bias_against) # {}
         THEN {"FOUNDING violation"} ELSE {}

\* CULTURE and FUNCTION values of the tag configuration, as the generation
\* prompt lists them
CultureValues == {"dwarf", "elf", "human", "wild", "ancient", "corrupted"}

FunctionValues ==
    {"residential", "military", "sacred", "industrial", "commercial", "passage"}

\* soft_constraints["culture_tensions"]: the pair of the tests
CultureTensions == {{"dwarf", "elf"}}

\* soft_constraints["function_clashes"]: hex_tags.toml is not among the sources
FunctionClashes == {{"sacred", "industrial"}}

_get_culture_tags(tags) == {t \in Values(tags) : t \in CultureValues}

_get_function_tags(tags) == {t \in Values(tags) : t \in FunctionValues}

\* one warning for every pair across the two hexes that is configured
PairWarnings(kind, tags_a, tags_b, configured) ==
    {[kind |-> kind, pair |-> {p[1], p[2]}] :
        p \in {x \in tags_a \X tags_b : {x[1], x[2]} \in configured}}

\* the warnings of validate_adjacency
AdjacencyWarnings(hex_a, hex_b) ==
    PairWarnings("Culture tension", _get_culture_tags(hex_a.tags),
                 _get_culture_tags(hex_b.tags), CultureTensions)
        \cup PairWarnings("Function clash", _get_function_tags(hex_a.tags),
                          _get_function_tags(hex_b.tags), FunctionClashes)

\* the warnings of validate_founding_constraints
FoundingWarnings(hex, ctx) ==
    IF /\ ctx.present
       /\ ctx.bias_tags # <<>>
       /\ Values(hex.tags) \cap Values(ctx.bias_tags) = {}
    THEN {"FOUNDING suggestion"} ELSE {}

\* the tags the FOUNDING violation message lists
FoundingViolations(hex, ctx) ==
    IF ~ctx.present THEN {} ELSE Values(hex.tags) \cap Values(ctx.bias_against)

\* ValidationResult(valid=len(errors) == 0, errors=errors, warnings=warnings);
\* named holds the tags an error message lists
ValidationResult(errors, named, warnings) ==
    [valid |-> Cardinality(errors) = 0, errors |-> errors, named |-> named,
     warnings |-> warnings]

\* validate_adjacency(hex_a, hex_b, edge) is called and returns
CallValidateAdjacency ==
    /\ pc = "validator"
    /\ result' = ValidationResult(
                     validate_adjacency(call.hex_a, call.hex_b, call.edge), {},
                     AdjacencyWarnings(call.hex_a, call.hex_b))
    /\ pc' = "adjacency_validated"
    /\ UNCHANGED <<layoutVars, mapVars, fillerVars, connVars, clusterVars, assembleVars>>
    /\ UNCHANGED <<replayVars, call, collectionVars>>

\* validate_founding_constraints(hex, founding_context) is called and returns
CallValidateFounding ==
    /\ pc = "validator"
    /\ result' = ValidationResult(
                     validate_founding_constraints(call.hex_a, call.founding_context),
                     FoundingViolations(call.hex_a, call.founding_context),
                     FoundingWarnings(call.hex_a, call.founding_context))
    /\ pc' = "founding_validated"
    /\ UNCHANGED <<layoutVars, mapVars, fillerVars, connVars, clusterVars, assembleVars>>
    /\ UNCHANGED <<replayVars, call, collectionVars>>

\* the tag lists of the hexes the validator is called on: those of the tests,
\* one without a terrain tag and one with two
HexTagLists ==
    {<<"underground", "dwarf", "industrial">>,
     <<"underground", "elf", "residential">>,
     <<"aerial", "ancient">>,
     <<"surface", "wild">>,
     <<"surface", "human", "military">>,
     <<"surface", "commercial", "exposed">>,
     <<"dwarf", "sacred">>,
     <<"elf", "aerial", "underground">>}

Tunnel6 == [e \in 0..5 |-> "tunnel"]

\* the edge lists of the hexes the validator is called on
HexEdgeLists ==
    {Tunnel6,
     [e \in 0..5 |-> "wilderness"],
     [e \in 0..5 |-> IF e <= 2 THEN "road" ELSE "wilderness"],
     [e \in 0..5 |-> IF e <= 1 THEN "tunnel" ELSE "blocked"],
     [e \in 0..5 |-> IF e = 0 THEN "water" ELSE "entrance"]}

\* FoundingContext(bias_against=["wild"], bias_tags=["military"])
WildBan ==
    [present |-> TRUE, bias_tags |-> <<"military">>, bias_against |-> <<"wild">>,
     siege_mentality |-> FALSE, martial_culture |-> 0]

\* FoundingContext(bias_against=["commercial", "exposed"])
TradeBan ==
    [present |-> TRUE, bias_tags |-> <<>>, bias_against |-> <<"commercial", "exposed">>,
     siege_mentality |-> FALSE, martial_culture |-> 0]

\* FoundingContext(bias_tags=["military", "defensive"])
DefensiveBias ==
    [present |-> TRUE, bias_tags |-> <<"military", "defensive">>, bias_against |-> <<>>,
     siege_mentality |-> FALSE, martial_culture |-> 0]

InitValidator ==
    /\ pc = "validator"
    /\ IdleLayout
    /\ world_radius = 0
    /\ IdleMap
    /\ IdleFiller
    /\ IdleConnector
    /\ IdleCluster
    /\ IdleAssemble
    /\ IdleReplay
    /\ IdleCollection
    /\ \E tags_a, tags_b \in HexTagLists, edges_a, edges_b \in HexEdgeLists,
          edge \in 0..5, ctx \in {NoContext, WildBan, TradeBan, DefensiveBias} :
        LET at == get_neighbor(0, 0, edge)
        IN  call = [hex_a |-> [q |-> 0, r |-> 0, tags |-> tags_a, edge_types |-> edges_a],
                    hex_b |-> [q |-> at[1], r |-> at[2], tags |-> tags_b,
                               edge_types |-> edges_b],
                    edge |-> edge, founding_context |-> ctx]
    /\ result = NoValidation

NextValidator == CallValidateAdjacency \/ CallValidateFounding

SpecValidator == InitValidator /\ [][NextValidator]_vars

----------------------------------------------------------------------------
(* C16: validate_adjacency(A, B, e).valid is false exactly when the terrain *)
(* tags of A and B form a configured incompatible pair, or A.edge_types[e]  *)
(* differs from B.edge_types[(e + 3) mod 6] while one of the two is tunnel, *)
(* road or water; culture tensions and function clashes add warnings and    *)
(* never change valid.                                                      *)

AdjacencyValidExactly ==
    pc = "adjacency_validated" =>
        LET terrain_a == _get_terrain_tag(call.hex_a.tags)
            terrain_b == _get_terrain_tag(call.hex_b.tags)
            side_a == call.hex_a.edge_types[call.edge]
            side_b == call.hex_b.edge_types[(call.edge + 3) % 6]
            must_match == {"tunnel", "road", "water"}
        IN  result.valid =
                ~(\/ {terrain_a, terrain_b} \in IncompatibleTerrain
                  \/ (side_a # side_b /\ (side_a \in must_match \/ side_b \in must_match)))

\* a mismatch where only B's side must match, on a pair with a culture tension
AdjacencyValidExactlyWitness ==
    /\ pc = "adjacency_validated"
    /\ ~result.valid
    /\ result.warnings # {}
    /\ call.hex_a.edge_types[call.edge] = "wilderness"
    /\ call.hex_b.edge_types[(call.edge + 3) % 6] = "road"

----------------------------------------------------------------------------
(* C17: validate_founding_constraints returns valid = false with exactly   *)
(* one error naming all violating tags when the hex has a tag of            *)
(* bias_against; valid = true with exactly one warning when bias_tags is    *)
(* non-empty, the hex has none of them and no forbidden tag; valid = true   *)
(* with no error and no warning when the founding context is None.          *)

FoundingResultAsSpecified ==
    pc = "founding_validated" =>
        LET ctx == call.founding_context
            tag_set == Values(call.hex_a.tags)
            forbidden == tag_set \cap Values(ctx.bias_against)
        IN  /\ ~ctx.present =>
                  (result.valid /\ result.errors = {} /\ result.warnings = {})
            /\ (ctx.present /\ forbidden # {}) =>
                  /\ ~result.valid
                  /\ Cardinality(result.errors) = 1
                  /\ result.named = forbidden
            /\ (/\ ctx.present
                /\ forbidden = {}
                /\ ctx.bias_tags # <<>>
                /\ tag_set \cap Values(ctx.bias_tags) = {}) =>
                  /\ result.valid
                  /\ result.errors = {}
                  /\ Cardinality(result.warnings) = 1

\* the hex holds two forbidden tags and the one error names both
FoundingResultAsSpecifiedWitness ==
    /\ pc = "founding_validated"
    /\ ~result.valid
    /\ Cardinality(result.named) = 2

----------------------------------------------------------------------------
(* cluster_generator.py *)

Min2(a, b) == IF a <= b THEN a ELSE b

Wilderness6 == [e \in Edges |-> "wilderness"]

\* road on edges 0, 1, 2 and wilderness on edges 3, 4, 5
HalfRoad == [e \in Edges |-> IF e <= 2 THEN "road" ELSE "wilderness"]

Blocked6 == [e \in Edges |-> "blocked"]

_generate_seed_hex == TaggedHex(0, 0, <<"surface", "wild", "passage", "surface">>, Wilderness6)

\* tests/test_cluster_generator.py: the hex the patched _generate_single_hex returns
make_hex(q, r) == TaggedHex(q, r, <<"surface", "wild">>, Wilderness6)

\* the q, r a response can carry: those of the prompt, or others
StrayCoord == <<3, 0>>

ResponseCoords(q, r) == {<<q, r>>, StrayCoord}

ResponseTags == {<<"surface", "wild">>, <<"surface", "military">>, <<"wild">>}

ResponseEdges == {Wilderness6, HalfRoad, Blocked6}

\* the hexes a call of _generate_single_hex(q, r, ...) can return; the hex is
\* built from the response, its q and r included
Responses(q, r) ==
    IF generator = "mock" THEN {make_hex(q, r)}
    ELSE {TaggedHex(c[1], c[2], tags, edge_types) :
            c \in ResponseCoords(q, r), tags \in ResponseTags,
            edge_types \in ResponseEdges}

\* the score in tenths; martial_culture is in tenths as well
_calculate_founding_score(hex, ctx) ==
    IF ~ctx.present THEN 10
    ELSE LET tag_set == Values(hex.tags)
             violations == tag_set \cap Values(ctx.bias_against)
             matches == tag_set \cap Values(ctx.bias_tags)
             score == 5 - Min2(Cardinality(violations) * 3, 5)
                        + Min2(Cardinality(matches) * 2, 5)
                        + (IF ctx.siege_mentality /\ "military" \in tag_set
                           THEN 1 ELSE 0)
                        + (IF /\ ctx.martial_culture > 2
                              /\ ("military" \in tag_set \/ "industrial" \in tag_set)
                           THEN 1 ELSE 0)
         IN  Max2(0, Min2(10, score))

\* the preferred tag the repair appends: the first one that is not an
\* underground tag, "none" when there is none
RECURSIVE FirstInjectable(_)
FirstInjectable(bias_tags) ==
    IF bias_tags = <<>> THEN "none"
    ELSE IF Head(bias_tags) \in {"underground", "deep", "shallow_under"}
         THEN FirstInjectable(Tail(bias_tags))
         ELSE Head(bias_tags)

\* the arguments the repair hands to the TaggedHex constructor
_apply_tag_injection(hex, ctx) ==
    LET forbidden == Values(ctx.bias_against)
        preferred == Values(ctx.bias_tags)
        NotForbidden(t) == t \notin forbidden
        kept == SelectSeq(hex.tags, NotForbidden)
        tags == IF /\ preferred # {}
                   /\ Values(kept) \cap preferred = {}
                   /\ FirstInjectable(ctx.bias_tags) # "none"
                THEN Append(kept, FirstInjectable(ctx.bias_tags))
                ELSE kept
    IN  TaggedHex(hex.q, hex.r, tags, hex.edge_types)

\* the edges of (q, r) that lead to a key not in hexes and are not blocked
available_edges(q, r, hs) ==
    {edge \in Edges :
        /\ coords_to_key(get_neighbor(q, r, edge)[1], get_neighbor(q, r, edge)[2])
              \notin DOMAIN hs
        /\ hs[coords_to_key(q, r)].edge_types[edge] # "blocked"}

\* random.sample(available, n): n distinct elements in any order
Samples(available, n) ==
    {s \in [1..n -> available] : \A i, j \in 1..n : i # j => s[i] # s[j]}

HexCount == Cardinality(DOMAIN cluster_hexes)

LoopRuns == HexCount < size /\ cluster_frontier # <<>>

\* one iteration of the while loop that pops a hex with no available edge
ClusterSkip ==
    /\ pc = "cluster"
    /\ LoopRuns
    /\ LET c == Head(cluster_frontier)
       IN  /\ available_edges(c[1], c[2], cluster_hexes) = {}
           /\ popped' = c
    /\ cluster_frontier' = Tail(cluster_frontier)
    /\ UNCHANGED <<pc, layoutVars, mapVars, fillerVars, connVars, assembleVars>>
    /\ UNCHANGED <<generator, size, founding_context, cluster_hexes, edges_to_expand,
                   cluster>>
    /\ UNCHANGED <<replayVars, validatorVars, collectionVars>>

\* one iteration that pops a hex and draws the edges to expand
ClusterPop ==
    /\ pc = "cluster"
    /\ LoopRuns
    /\ LET c == Head(cluster_frontier)
           available == available_edges(c[1], c[2], cluster_hexes)
       IN  /\ available # {}
           /\ popped' = c
           /\ \E drawn \in 1..2 :
                LET num_to_add ==
                        Min2(drawn, Min2(size - HexCount, Cardinality(available)))
                IN  \E sample \in Samples(available, num_to_add) :
                        edges_to_expand' = sample
    /\ cluster_frontier' = Tail(cluster_frontier)
    /\ pc' = "cluster_expand"
    /\ UNCHANGED <<layoutVars, mapVars, fillerVars, connVars, assembleVars>>
    /\ UNCHANGED <<generator, size, founding_context, cluster_hexes, cluster>>
    /\ UNCHANGED <<replayVars, validatorVars, collectionVars>>

\* the edge the for loop is at, its neighbour, and the hex it expands from
ExpandEdge == Head(edges_to_expand)

ExpandCoord == get_neighbor(popped[1], popped[2], ExpandEdge)

NumCandidates == IF founding_context.present THEN 2 ELSE 1

\* the candidate lists the calls of one try block can produce
CandidateLists == [1..NumCandidates -> Responses(ExpandCoord[1], ExpandCoord[2])]

\* all_errors of a candidate
AllErrors(candidate) ==
    validate_adjacency(cluster_hexes[coords_to_key(popped[1], popped[2])],
                       candidate, ExpandEdge)
        \cup validate_founding_constraints(candidate, founding_context)

ValidIndexes(cands) == {i \in DOMAIN cands : AllErrors(cands[i]) = {}}

\* best_hex: the first valid candidate with the highest score
BestHex(cands) ==
    LET Score(i) == _calculate_founding_score(cands[i], founding_context)
        best == CHOOSE i \in ValidIndexes(cands) :
                    \A j \in ValidIndexes(cands) :
                        Score(i) > Score(j) \/ (Score(i) = Score(j) /\ i <= j)
    IN  cands[best]

\* the hex the retry branch hands to the TaggedHex constructor or stores
Repaired(new_hex) ==
    IF validate_founding_constraints(new_hex, founding_context) # {}
    THEN _apply_tag_injection(new_hex, founding_context)
    ELSE new_hex

\* the for loop moves on: to the next edge, or out when the list is used up
\* or len(hexes) >= size
LoopMovesOn(hs) ==
    IF Tail(edges_to_expand) = <<>> \/ Cardinality(DOMAIN hs) >= size
    THEN /\ edges_to_expand' = <<>>
         /\ pc' = "cluster"
    ELSE /\ edges_to_expand' = Tail(edges_to_expand)
         /\ pc' = "cluster_expand"

ExpandStores(hex) ==
    /\ cluster_hexes' = Store(cluster_hexes,
                              coords_to_key(ExpandCoord[1], ExpandCoord[2]), hex)
    /\ cluster_frontier' = Append(cluster_frontier, ExpandCoord)
    /\ LoopMovesOn(cluster_hexes')

\* one edge of the for loop: a candidate passes both validations
ExpandAccept ==
    /\ pc = "cluster_expand"
    /\ \E cands \in CandidateLists :
        /\ ValidIndexes(cands) # {}
        /\ ExpandStores(BestHex(cands))
    /\ UNCHANGED <<layoutVars, mapVars, fillerVars, connVars, assembleVars>>
    /\ UNCHANGED <<generator, size, founding_context, popped, cluster>>
    /\ UNCHANGED <<replayVars, validatorVars, collectionVars>>

\* one edge of the for loop: no candidate passes, the hex of the retry is
\* stored, after the tag repair when it fails the founding validation
ExpandRetry ==
    /\ pc = "cluster_expand"
    /\ ~ \A cands \in CandidateLists : ValidIndexes(cands) # {}
    /\ \E new_hex \in Responses(ExpandCoord[1], ExpandCoord[2]) :
        /\ Repaired(new_hex).tags # <<>>
        /\ ExpandStores(Repaired(new_hex))
    /\ UNCHANGED <<layoutVars, mapVars, fillerVars, connVars, assembleVars>>
    /\ UNCHANGED <<generator, size, founding_context, popped, cluster>>
    /\ UNCHANGED <<replayVars, validatorVars, collectionVars>>

\* one edge of the for loop: a call of the content generator raises, or the
\* TaggedHex constructor rejects the repaired hex (tags min_length=1); the
\* except clause logs it and nothing is stored
ExpandFail ==
    /\ pc = "cluster_expand"
    /\ \/ generator = "llm"
       \/ /\ ~ \A cands \in CandidateLists : ValidIndexes(cands) # {}
          /\ \E new_hex \in Responses(ExpandCoord[1], ExpandCoord[2]) :
                Repaired(new_hex).tags = <<>>
    /\ LoopMovesOn(cluster_hexes)
    /\ UNCHANGED <<layoutVars, mapVars, fillerVars, connVars, assembleVars>>
    /\ UNCHANGED <<generator, size, founding_context, cluster_hexes, cluster_frontier,
                   popped, cluster>>
    /\ UNCHANGED <<replayVars, validatorVars, collectionVars>>

\* HexCluster.hexes: min_length=20, max_length=20
HexClusterLength == 20

\* the loop is over: generate() hands list(hexes.values()) to HexCluster
ClusterReturn ==
    /\ pc = "cluster"
    /\ ~LoopRuns
    /\ cluster' = IF HexCount = HexClusterLength THEN "HexCluster"
                  ELSE "ValidationError"
    /\ pc' = "cluster_done"
    /\ UNCHANGED <<layoutVars, mapVars, fillerVars, connVars, assembleVars>>
    /\ UNCHANGED <<generator, size, founding_context, cluster_hexes, cluster_frontier,
                   popped, edges_to_expand>>
    /\ UNCHANGED <<replayVars, validatorVars, collectionVars>>

\* a founding context that prefers military and forbids wild
MartialFounding ==
    [present |-> TRUE, bias_tags |-> <<"military">>, bias_against |-> <<"wild">>,
     siege_mentality |-> TRUE, martial_culture |-> 0]

\* a founding context that forbids wild and prefers nothing
WildForbidden ==
    [present |-> TRUE, bias_tags |-> <<>>, bias_against |-> <<"wild">>,
     siege_mentality |-> FALSE, martial_culture |-> 0]

InitCluster ==
    /\ pc = "cluster"
    /\ IdleReplay
    /\ IdleValidator
    /\ IdleCollection
    /\ IdleLayout
    /\ world_radius = 0
    /\ IdleMap
    /\ IdleFiller
    /\ IdleConnector
    /\ IdleAssemble
    \* the mock of the tests; a content generator whose calls can raise; one
    \* that answers every call with a well-formed hex
    /\ generator \in {"mock", "llm", "wellformed"}
    /\ size \in 1..(IF generator = "mock" THEN MockSize ELSE MaxSize)
    /\ founding_context \in
          (IF generator = "mock" THEN {NoContext}
           ELSE {NoContext, MartialFounding, WildForbidden})
    /\ cluster_hexes = [k \in {coords_to_key(0, 0)} |-> _generate_seed_hex]
    /\ cluster_frontier = <<<<0, 0>>>>
    /\ popped = <<0, 0>>
    /\ edges_to_expand = <<>>
    /\ cluster = "none"

NextCluster ==
    ClusterSkip \/ ClusterPop \/ ExpandAccept \/ ExpandRetry \/ ExpandFail
        \/ ClusterReturn

SpecCluster == InitCluster /\ [][NextCluster]_vars

----------------------------------------------------------------------------
(* C4: with the content generator of the tests, which never fails and      *)
(* returns all-wilderness hexes, generate(size) ends its loop with exactly *)
(* size hexes, whatever the random draws.                                  *)

MockReturnsSize ==
    (pc = "cluster_done" /\ generator = "mock") => HexCount = size

----------------------------------------------------------------------------
(* C5: in the hexes generate() returns, any two hexes at neighbouring      *)
(* coordinates agree on the edge between them when either side of it is    *)
(* tunnel, road or water.                                                  *)

EdgesMatchAtBorders ==
    pc = "cluster_done" =>
        \A a, b \in Values(cluster_hexes) :
            \A e \in Edges :
                (/\ get_neighbor(a.q, a.r, e) = <<b.q, b.r>>
                 /\ \/ a.edge_types[e] \in MATCHING_EDGES
                    \/ b.edge_types[get_opposite_edge(e)] \in MATCHING_EDGES)
                => a.edge_types[e] = b.edge_types[get_opposite_edge(e)]

----------------------------------------------------------------------------
(* C6: at every step of generate() and in what it returns, the coordinates *)
(* of the placed hexes are connected under the six-neighbour relation.     *)

RECURSIVE Reach(_, _)
Reach(cells, from) ==
    LET next == from \cup {c \in cells :
                    \E d \in from : distance(c[1], c[2], d[1], d[2]) = 1}
    IN  IF next = from THEN from ELSE Reach(cells, next)

Connected(cells) == \A c \in cells : Reach(cells, {c}) = cells

ClusterConnected ==
    Connected({<<h.q, h.r>> : h \in Values(cluster_hexes)})

----------------------------------------------------------------------------
(* assembly/assembler.py *)

\* TAG_TO_TERRAIN
TagsWithTerrain ==
    {"underground", "surface", "underwater", "aerial", "deep", "shallow_under",
     "elevated", "peak", "wild", "corrupted"}

TAG_TO_TERRAIN(tag) ==
    CASE tag = "underground" -> "underground"
      [] tag = "surface" -> "plains"
      [] tag = "underwater" -> "deep_water"
      [] tag = "aerial" -> "plains"
      [] tag = "deep" -> "cavern"
      [] tag = "shallow_under" -> "underground"
      [] tag = "elevated" -> "hills"
      [] tag = "peak" -> "high_mountains"
      [] tag = "wild" -> "forest"
      [] tag = "corrupted" -> "marsh"

\* the terrain of the WorldHex: of the first tag that has one, else plains
RECURSIVE _tagged_to_world_hex(_)
_tagged_to_world_hex(tags) ==
    IF tags = <<>> THEN "plains"
    ELSE IF Head(tags) \in TagsWithTerrain THEN TAG_TO_TERRAIN(Head(tags))
    ELSE _tagged_to_world_hex(Tail(tags))

\* footprint of a list of tagged hexes
FootprintOf(tagged) == [i \in DOMAIN tagged |-> <<tagged[i].q, tagged[i].r>>]

\* the AssembledCluster of a placement that is no settlement
MinimalCluster ==
    [template_id |-> "other", tagged |-> <<>>,
     footprint |-> << <<0, 0>>, <<1, 0>>, <<0, 1>> >>]

\* the AssembledCluster of a settlement whose generated hexes are tagged
SettlementCluster(tagged) ==
    [template_id |-> "settlement", tagged |-> tagged, footprint |-> FootprintOf(tagged)]

\* hexes the content generator gives for the prompt of (1, 0): one that names
\* (1, 0) and one that names (0, 0)
SettlementResponses ==
    {TaggedHex(1, 0, <<"surface", "wild">>, Wilderness6),
     TaggedHex(0, 0, <<"underground", "dwarf">>, Wilderness6)}

\* cluster.hexes of the clusters cluster_generator.generate returns: the seed
\* hex first, then the generated hexes
GeneratedClusters ==
    {<<_generate_seed_hex>> \o rest :
        rest \in UNION {[1..n -> SettlementResponses] : n \in 0..SettlementExtra}}

\* what cluster_generator.generate(size=20) does for one placement: it returns
\* a HexCluster, or the HexCluster constructor raises (fewer than 20 hexes)
GenerateOutcomes ==
    {[raises |-> FALSE, hexes |-> t] : t \in GeneratedClusters}
        \cup {[raises |-> TRUE, hexes |-> <<>>]}

\* a ClusterPlacement of the seed, with the outcome of its generate call
Placements ==
    {[template_id |-> "other", generate |-> [raises |-> FALSE, hexes |-> <<>>]]}
        \cup {[template_id |-> "settlement", generate |-> g] : g \in GenerateOutcomes}

\* index of the placement the first loop of _place_clusters is at
CurrentPlacement == Len(assembled_clusters) + 1

\* one pass of the first loop of _place_clusters: the AssembledCluster of the
\* placement is built; after the last one layout_solver.solve is called
PlaceAssemble ==
    /\ pc = "generate"
    /\ CurrentPlacement <= Len(seed_clusters)
    /\ LET placement == seed_clusters[CurrentPlacement]
           assembled == IF placement.template_id = "settlement"
                        THEN SettlementCluster(placement.generate.hexes)
                        ELSE MinimalCluster
       IN  /\ ~(placement.template_id = "settlement" /\ placement.generate.raises)
           /\ assembled_clusters' = Append(assembled_clusters, assembled)
           /\ clusters' = Append(clusters, Values(assembled.footprint))
    /\ pc' = IF CurrentPlacement = Len(seed_clusters) THEN "layout" ELSE "generate"
    /\ UNCHANGED <<world_radius, positions, placed_footprints, attempts>>
    /\ UNCHANGED <<mapVars, fillerVars, connVars, clusterVars>>
    /\ UNCHANGED <<seed_connectors, place_at, connector_at, seed_clusters>>
    /\ UNCHANGED <<replayVars, validatorVars, collectionVars>>

\* cluster_generator.generate raises inside the first loop of _place_clusters:
\* no handler encloses the call, the exception leaves assemble
PlaceGenerateRaises ==
    /\ pc = "generate"
    /\ CurrentPlacement <= Len(seed_clusters)
    /\ seed_clusters[CurrentPlacement].template_id = "settlement"
    /\ seed_clusters[CurrentPlacement].generate.raises
    /\ pc' = "generate_raised"
    /\ UNCHANGED <<layoutVars, mapVars, fillerVars, connVars, clusterVars, assembleVars>>
    /\ UNCHANGED <<replayVars, validatorVars, collectionVars>>

\* a ConnectorAssignment from the first cluster; cluster 0 stands for a name
\* that is no cluster
Assignments(n) ==
    [start_cluster : {1}, end_cluster : 0..n, collection_id : {"trade_route", "river"}]

BaseTerrain(collection_id) ==
    IF collection_id = "river" THEN "shallow_water" ELSE "plains"

ConnectorPathStartOnly(start, end, length) == <<start>>

RECURSIVE _get_connector_path(_, _, _)
_get_connector_path(start, end, length) ==
    IF length <= 1 \/ start = end THEN <<start>>
    ELSE <<start>> \o _get_connector_path(BestNeighbor(start, end), end, length - 1)

\* one pass of the loop that adds the cluster hexes to the map: the hex at
\* place_at is written at its offset from the position of its cluster
PlaceClusterHex ==
    /\ pc = "layout_done"
    /\ place_at[1] <= Len(assembled_clusters)
    /\ LET c == assembled_clusters[place_at[1]]
           i == place_at[2]
           base_pos == positions[place_at[1]]
           generated == c.template_id = "settlement"
           offset == IF generated THEN <<c.tagged[i].q, c.tagged[i].r>>
                     ELSE c.footprint[i]
           terrain == IF generated THEN _tagged_to_world_hex(c.tagged[i].tags)
                      ELSE "plains"
           key == coords_to_key(base_pos[1] + offset[1], base_pos[2] + offset[2])
           count == IF generated THEN Len(c.tagged) ELSE Len(c.footprint)
       IN  /\ hexes' = Store(hexes, key, terrain)
           /\ writes' = Count(writes, key)
           /\ place_at' = IF i < count THEN <<place_at[1], i + 1>>
                          ELSE <<place_at[1] + 1, 1>>
    /\ UNCHANGED <<pc, layoutVars, fillerVars, connVars, clusterVars>>
    /\ UNCHANGED <<assembled_clusters, seed_connectors, connector_at, seed_clusters>>
    /\ UNCHANGED <<replayVars, validatorVars, collectionVars>>

\* _place_clusters returns, _generate_connectors takes over
PlaceDone ==
    /\ pc = "layout_done"
    /\ place_at[1] > Len(assembled_clusters)
    /\ pc' = "connectors"
    /\ UNCHANGED <<layoutVars, mapVars, fillerVars, connVars, clusterVars, assembleVars>>
    /\ UNCHANGED <<replayVars, validatorVars, collectionVars>>

\* an assignment that names a cluster without a position is passed over
ConnectorSkip ==
    /\ pc = "connectors"
    /\ connector_at <= Len(seed_connectors)
    /\ seed_connectors[connector_at].end_cluster = 0
    /\ connector_at' = connector_at + 1
    /\ UNCHANGED <<pc, layoutVars, mapVars, fillerVars, connVars, clusterVars>>
    /\ UNCHANGED <<assembled_clusters, seed_connectors, place_at, seed_clusters>>
    /\ UNCHANGED <<replayVars, validatorVars, collectionVars>>

\* connector_generator.generate is called with the keys of the map as
\* placed_hexes: the path search begins
ConnectorStart ==
    /\ pc = "connectors"
    /\ connector_at <= Len(seed_connectors)
    /\ seed_connectors[connector_at].end_cluster # 0
    /\ LET assignment == seed_connectors[connector_at]
           start_pos == positions[assignment.start_cluster]
           end_pos == positions[assignment.end_cluster]
       IN  /\ constraint' = [start |-> start_pos, end |-> end_pos,
                             avoid_positions |-> {key_to_coords(k) : k \in DOMAIN hexes}]
           /\ open_set' = {Entry(0, start_pos, <<start_pos>>, start_pos)}
    /\ visited' = {}
    /\ path_coords' = <<>>
    /\ pc' = "astar"
    /\ UNCHANGED <<layoutVars, mapVars, fillerVars, max_deviation, clusterVars,
                   assembleVars>>
    /\ UNCHANGED <<replayVars, validatorVars, collectionVars>>

\* the loop over the path of _get_connector_path, from index i on: a hex is
\* written where the key is not on the map; map is [hexes, writes]
RECURSIVE PlaceConnectorHexes(_, _, _, _, _)
PlaceConnectorHexes(map, path, i, length, terrain) ==
    IF i > Len(path) THEN map
    ELSE LET key == coords_to_key(path[i][1], path[i][2])
         IN  IF key \notin DOMAIN map.hexes /\ i - 1 < length
             THEN PlaceConnectorHexes(
                      [hexes |-> Store(map.hexes, key, terrain),
                       writes |-> Count(map.writes, key)],
                      path, i + 1, length, terrain)
             ELSE PlaceConnectorHexes(map, path, i + 1, length, terrain)

\* generate has returned a connector with one hex per coordinate of
\* path_coords: its hexes are added to the map along _get_connector_path
ConnectorWrite ==
    /\ pc = "path_done"
    /\ connector_at <= Len(seed_connectors)
    /\ LET length == Len(path_coords)
           path == _get_connector_path(constraint.start, constraint.end, length)
           terrain == BaseTerrain(seed_connectors[connector_at].collection_id)
           map == PlaceConnectorHexes([hexes |-> hexes, writes |-> writes],
                                      path, 1, length, terrain)
       IN  /\ hexes' = map.hexes
           /\ writes' = map.writes
    /\ connector_at' = connector_at + 1
    /\ pc' = "connectors"
    /\ UNCHANGED <<layoutVars, fillerVars, connVars, clusterVars>>
    /\ UNCHANGED <<assembled_clusters, seed_connectors, place_at, seed_clusters>>
    /\ UNCHANGED <<replayVars, validatorVars, collectionVars>>

\* _generate_connectors returns; the anchors leave the map alone;
\* _generate_fillers takes over
ConnectorsDone ==
    /\ pc = "connectors"
    /\ connector_at > Len(seed_connectors)
    /\ pc' = "filler"
    /\ UNCHANGED <<layoutVars, mapVars, fillerVars, connVars, clusterVars, assembleVars>>
    /\ UNCHANGED <<replayVars, validatorVars, collectionVars>>

InitAssemble ==
    /\ pc = "generate"
    /\ IdleReplay
    /\ IdleValidator
    /\ IdleCollection
    /\ world_radius \in 0..AssembleRadius
    /\ seed_clusters \in UNION {[1..n -> Placements] : n \in 1..MaxClusters}
    /\ seed_connectors \in
          {<<>>} \cup {<<a>> : a \in Assignments(Len(seed_clusters))}
    /\ assembled_clusters = <<>>
    /\ clusters = <<>>
    /\ positions = <<>>
    /\ placed_footprints = {}
    /\ attempts = 0
    /\ IdleMap
    /\ IdleFiller
    /\ IdleCluster
    /\ constraint = NoConstraint
    \* ConnectorGenerator() searches with max_deviation 3; the model's search
    \* ends at DeviationCap
    /\ max_deviation = DeviationCap
    /\ open_set = {}
    /\ visited = {}
    /\ path_coords = <<>>
    /\ place_at = <<1, 1>>
    /\ connector_at = 1

NextAssemble ==
    \/ PlaceAssemble \/ PlaceGenerateRaises
    \/ LayoutPlace \/ LayoutReject
    \/ PlaceClusterHex \/ PlaceDone
    \/ ConnectorSkip \/ ConnectorStart
    \/ AStarReturn \/ AStarSkip \/ AStarExpand \/ AStarFallback
    \/ ConnectorWrite \/ ConnectorsDone
    \/ FillerStart \/ FillerCollapse \/ FillerFinish

SpecAssemble == InitAssemble /\ [][NextAssemble]_vars

----------------------------------------------------------------------------
(* C3: during one assemble run no key of hex_map.hexes is assigned a       *)
(* second time, so a value once written is never replaced.                 *)

NeverOverwritten == \A key \in DOMAIN writes : writes[key] <= 1

----------------------------------------------------------------------------
(* C12: when generating one cluster or one connector raises, assemble       *)
(* catches the failure and still returns a world with what succeeded: no    *)
(* assemble run ends with the exception of a generate call, only a layout   *)
(* failure aborts it.                                                       *)

GenerationFailureIsCaught == pc # "generate_raised"

----------------------------------------------------------------------------
(* C13: when the frontier is exhausted before size hexes have been placed,  *)
(* generate() returns a cluster holding the hexes placed so far instead of  *)
(* raising.                                                                 *)

FrontierExhaustedReturns ==
    (pc = "cluster_done" /\ cluster_frontier = <<>> /\ HexCount < size)
        => cluster = "HexCluster"

----------------------------------------------------------------------------
(* two invocations on the same seed *)

\* solve() has returned or raised and is called again with the same clusters
\* and radius and an rng constructed from the same seed
LayoutAgain ==
    /\ pc \in {"layout_done", "layout_failed"}
    /\ repeat > 0
    /\ first_result' = [present |-> TRUE, outcome |-> pc, positions |-> positions,
                        hexes |-> hexes]
    /\ repeat' = repeat - 1
    /\ rng_at' = 0
    /\ positions' = <<>>
    /\ placed_footprints' = {}
    /\ attempts' = 0
    /\ pc' = "layout"
    /\ UNCHANGED <<world_radius, clusters, rng_stream, validatorVars, collectionVars>>
    /\ UNCHANGED <<mapVars, fillerVars, connVars, clusterVars, assembleVars>>

InitRelayout ==
    /\ pc = "layout"
    /\ IdleMap
    /\ IdleFiller
    /\ IdleConnector
    /\ IdleCluster
    /\ IdleAssemble
    /\ world_radius \in 0..RepeatRadius
    /\ clusters \in UNION {[1..n -> Footprints] : n \in 1..MaxClusters}
    /\ positions = <<>>
    /\ placed_footprints = {}
    /\ attempts = 0
    /\ rng_stream = <<>>
    /\ rng_at = 0
    /\ repeat = 1
    /\ first_result = NoResult
    /\ IdleValidator
    /\ IdleCollection

NextRelayout == LayoutPlace \/ LayoutReject \/ LayoutAgain

SpecRelayout == InitRelayout /\ [][NextRelayout]_vars

\* a second assemble run on the same seed, whose stages before the filler
\* have given the same map as those of the first, calls generate_fillers
FillerAgain ==
    /\ pc = "filler_done"
    /\ repeat > 0
    /\ first_result' = [present |-> TRUE, outcome |-> pc, positions |-> positions,
                        hexes |-> hexes]
    /\ repeat' = repeat - 1
    /\ hexes' = [k \in DOMAIN hexes \ DOMAIN wave |-> hexes[k]]
    /\ writes' = [k \in DOMAIN hexes \ DOMAIN wave |-> 1]
    /\ wave' = EmptyMap
    /\ frontier' = {}
    /\ iteration' = 0
    /\ pc' = "filler"
    /\ UNCHANGED <<layoutVars, max_iterations, connVars, clusterVars, assembleVars>>
    /\ UNCHANGED <<rng_stream, rng_at, validatorVars, collectionVars>>

\* the maps generate_fillers is called on twice: few cells are left empty
RefillMaps(radius) ==
    {m \in FixedMaps(radius) :
        Cardinality(_find_empty_positions(DOMAIN m, radius)) <= RefillEmpty}

InitRefill ==
    /\ pc = "filler"
    /\ IdleLayout
    /\ IdleConnector
    /\ IdleCluster
    /\ IdleAssemble
    /\ world_radius \in 0..FillerRadius
    /\ hexes \in RefillMaps(world_radius)
    /\ writes = [k \in DOMAIN hexes |-> 1]
    /\ max_iterations = DefaultMaxIterations
    /\ wave = EmptyMap
    /\ frontier = {}
    /\ iteration = 0
    /\ rng_stream = <<>>
    /\ rng_at = 0
    /\ repeat = 1
    /\ first_result = NoResult
    /\ IdleValidator
    /\ IdleCollection

NextRefill == FillerStart \/ FillerCollapse \/ FillerFinish \/ FillerAgain

SpecRefill == InitRefill /\ [][NextRefill]_vars

----------------------------------------------------------------------------
(* C14: every random choice of an assembly run is drawn from the random     *)
(* source seeded by seed_id, so the filler pass of a second run on the same *)
(* seed, given the same map, ends with the same keys and the same terrain   *)
(* at every key as the first.                                               *)

RefillSameMap ==
    (pc = "filler_done" /\ first_result.present) => hexes = first_result.hexes

----------------------------------------------------------------------------
(* C15: for a fixed seed and the same cluster list, a second invocation of  *)
(* solve() ends as the first did and returns the same positions.            *)

SolveReproducible ==
    (pc \in {"layout_done", "layout_failed"} /\ first_result.present)
        => (pc = first_result.outcome /\ positions = first_result.positions)

\* the second invocation has placed two clusters after a rejected draw
SolveReproducibleWitness ==
    /\ pc = "layout_done"
    /\ first_result.present
    /\ Len(positions) = 2
    /\ rng_at > 2

----------------------------------------------------------------------------
(* C19: every hex generate() stores, except the seed hex, has no hard       *)
(* adjacency error against the hex it was expanded from, also when it is    *)
(* stored by the retry and tag-injection branch.                            *)

StoredHexPassedAdjacency ==
    [][(/\ pc = "cluster_expand"
        /\ coords_to_key(ExpandCoord[1], ExpandCoord[2]) \in DOMAIN cluster_hexes')
       => validate_adjacency(
              cluster_hexes[coords_to_key(popped[1], popped[2])],
              cluster_hexes'[coords_to_key(ExpandCoord[1], ExpandCoord[2])],
              ExpandEdge) = {}]_vars

----------------------------------------------------------------------------
(* C20: when every call of the content generator returns a well-formed hex, *)
(* each expansion attempt ends with a hex stored at the coordinate and the  *)
(* coordinate appended to the frontier; a failed validation is retried and  *)
(* repaired, the hex is never dropped.                                      *)

WellFormedAlwaysStored ==
    [][(generator = "wellformed" /\ pc = "cluster_expand")
       => /\ coords_to_key(ExpandCoord[1], ExpandCoord[2]) \in DOMAIN cluster_hexes'
          /\ cluster_frontier' = Append(cluster_frontier, ExpandCoord)]_vars

----------------------------------------------------------------------------
(* cluster_generator.py: _apply_tag_injection called on its own *)

\* FoundingContext puts no condition on its two lists: a tag may be in both
PreferredAndForbidden ==
    [present |-> TRUE, bias_tags |-> <<"wild">>, bias_against |-> <<"wild">>,
     siege_mentality |-> FALSE, martial_culture |-> 0]

\* FoundingContext(bias_tags=["underground", "deep", "military"])
UndergroundFirst ==
    [present |-> TRUE, bias_tags |-> <<"underground", "deep", "military">>,
     bias_against |-> <<"commercial">>, siege_mentality |-> FALSE, martial_culture |-> 0]

RepairContexts ==
    {NoContext, WildBan, TradeBan, DefensiveBias, WildForbidden, PreferredAndForbidden,
     UndergroundFirst}

\* TaggedHex.tags: min_length=1, max_length=10
TagsAccepted(tags) == Len(tags) >= 1 /\ Len(tags) <= 10

\* _apply_tag_injection(hex) is called and returns, or the TaggedHex
\* constructor at its end raises
CallApplyTagInjection ==
    /\ pc = "repair"
    /\ LET fixed == _apply_tag_injection(call.hex_a, call.founding_context)
       IN  result' = [raises |-> call.founding_context.present /\ ~TagsAccepted(fixed.tags),
                      hex |-> fixed]
    /\ pc' = "repaired"
    /\ UNCHANGED <<layoutVars, mapVars, fillerVars, connVars, clusterVars, assembleVars>>
    /\ UNCHANGED <<replayVars, call, collectionVars>>

InitRepair ==
    /\ pc = "repair"
    /\ IdleLayout
    /\ world_radius = 0
    /\ IdleMap
    /\ IdleFiller
    /\ IdleConnector
    /\ IdleCluster
    /\ IdleAssemble
    /\ IdleReplay
    /\ IdleCollection
    /\ \E tags \in HexTagLists \cup {<<"wild">>}, edges \in HexEdgeLists,
          ctx \in RepairContexts :
        call = [hex_a |-> [q |-> 0, r |-> 0, tags |-> tags, edge_types |-> edges],
                hex_b |-> <<>>, edge |-> 0, founding_context |-> ctx]
    /\ result = NoValidation

NextRepair == CallApplyTagInjection

SpecRepair == InitRepair /\ [][NextRepair]_vars

----------------------------------------------------------------------------
(* C21: for every hex and every founding context, the hex the tag-injection *)
(* repair returns holds no tag of bias_against, so it passes the founding    *)
(* validation without error, and the tag list of the hex it was given is     *)
(* unchanged.                                                                *)

RepairedHasNoForbiddenTag ==
    (pc = "repaired" /\ ~result.raises)
    => /\ Values(result.hex.tags) \cap Values(call.founding_context.bias_against) = {}
       /\ validate_founding_constraints(result.hex, call.founding_context) = {}

----------------------------------------------------------------------------
(* C22: the path computed for a connector has at most                       *)
(* distance(start, end) + max_deviation steps (coordinates minus one), for  *)
(* every start, end, occupied set and order of equal-cost entries, after    *)
(* the A* search and after the straight-line fallback.                      *)

StraightDistance ==
    distance(constraint.start[1], constraint.start[2],
             constraint.end[1], constraint.end[2])

PathWithinDeviation ==
    pc = "path_done" => Len(path_coords) - 1 <= StraightDistance + max_deviation

\* a detour that uses the whole allowance
PathWithinDeviationWitness ==
    /\ pc = "path_done"
    /\ max_deviation > 0
    /\ constraint.end \notin constraint.avoid_positions
    /\ Len(path_coords) - 1 = StraightDistance + max_deviation

----------------------------------------------------------------------------
(* C23: connector pathfinding terminates for every start, end and occupied  *)
(* set: the A* loop pops the goal or empties the open set, and the          *)
(* straight-line fallback then reaches end in exactly distance(start, end)  *)
(* steps.                                                                   *)

PathfindingTerminates ==
    /\ <>(pc = "path_done")
    /\ [][(pc = "astar" /\ open_set = {})
          => /\ pc' = "path_done"
             /\ Len(path_coords') - 1 = StraightDistance
             /\ path_coords'[Len(path_coords')] = constraint.end]_vars

\* the open set ran empty after a search that could not reach an occupied end
PathfindingTerminatesWitness ==
    /\ pc = "path_done"
    /\ visited # {}
    /\ constraint.end \in constraint.avoid_positions
    /\ StraightDistance = ConnectorSpan
    /\ Len(path_coords) - 1 = StraightDistance

----------------------------------------------------------------------------
(* C24: the collapse loop of the filler ends after at most max_iterations   *)
(* collapses for every input map; an empty cell is collapsed at most once;  *)
(* every cell not collapsed when the loop ends, by the cap or by an empty   *)
(* frontier, is filled with the default surface terrain.                    *)

CollapsedCells == {pos_key \in DOMAIN wave : wave[pos_key].collapsed}

CollapseLoopBounded ==
    /\ <>(pc = "filler_done")
    /\ [](pc \in {"filler_loop", "filler_done"}
          => /\ iteration <= max_iterations
             /\ Cardinality(CollapsedCells) = iteration
             /\ \A pos_key \in CollapsedCells : writes[pos_key] = 1)
    /\ [](pc = "filler_done"
          => \A pos_key \in DOMAIN wave \ CollapsedCells :
                /\ pos_key \in DOMAIN hexes
                /\ hexes[pos_key] = _create_filler_hex("surface")
                /\ writes[pos_key] = 1)

\* the cap stopped the loop with the frontier not empty
CollapseLoopBoundedWitness ==
    /\ pc = "filler_done"
    /\ iteration = max_iterations
    /\ frontier # {}
    /\ DOMAIN wave \ CollapsedCells # {}
    /\ \E pos_key \in CollapsedCells : hexes[pos_key] # _create_filler_hex("surface")

----------------------------------------------------------------------------
(* C29: for every terrain tag the filler can choose, the filler hex made    *)
(* for the tag reads back as that tag:                                      *)
(* _extract_terrain_tag(_create_filler_hex(q, r, t)) = t, so a collapsed    *)
(* cell constrains and weights its neighbours by the tag chosen for it.     *)

FillerHexReadsBackChosenTag ==
    \A pos_key \in CollapsedCells :
        /\ hexes[pos_key] = _create_filler_hex(wave[pos_key].chosen_tag)
        /\ _extract_terrain_tag(hexes[pos_key]) = wave[pos_key].chosen_tag

----------------------------------------------------------------------------
(* C28: for each connector the assembler writes connector hex i at the i-th *)
(* coordinate of the path the connector generator found for it: every       *)
(* coordinate of that path that is unoccupied gets a hex, and no connector  *)
(* hex is written on a coordinate the pathfinder did not choose.            *)

ConnectorWrittenOnFoundPath ==
    [][pc = "path_done"
       => /\ _get_connector_path(constraint.start, constraint.end, Len(path_coords))
                = path_coords
          /\ \A i \in 1..Len(path_coords) :
                coords_to_key(path_coords[i][1], path_coords[i][2]) \in DOMAIN hexes'
          /\ \A key \in DOMAIN hexes' \ DOMAIN hexes :
                \E i \in 1..Len(path_coords) :
                    key = coords_to_key(path_coords[i][1], path_coords[i][2])]_vars

\* a river of three hexes has been written; its middle hex was unoccupied
ConnectorWrittenOnFoundPathWitness ==
    /\ pc = "connectors"
    /\ connector_at = 2
    /\ Len(path_coords) = 3
    /\ writes[coords_to_key(path_coords[2][1], path_coords[2][2])] = 1
    /\ hexes[coords_to_key(path_coords[2][1], path_coords[2][2])] = "shallow_water"

----------------------------------------------------------------------------
(* connector_generator.py: from the path to the ConnectorCollection *)

\* longest path a collection is built for
MaxPathLen == 4
\* most elastic segments handed to generate
MaxSegments == 2
\* a min_length that asks for more hexes than any path of the model has, and
\* a max_length no segment of the model exceeds
LongSegment == 9

ConnectorTypes == {"river_middle", "trade_route_major", "pilgrim_path"}

\* "river" in connector_type.value.lower()
IsRiver(type) == type \in {"river_headwaters", "river_upper", "river_middle",
                           "river_lower", "river_delta", "river_full"}

_get_base_terrain(type) ==
    CASE type \in {"river_headwaters", "river_upper", "river_middle"} -> "shallow_water"
      [] type = "river_lower" -> "deep_water"
      [] type \in {"trade_route_major", "trade_route_minor", "military_road"} -> "plains"
      [] type = "mountain_pass" -> "mountains"
      [] OTHER -> "plains"

_get_anchor_interval(type) ==
    CASE type = "trade_route_major" -> 8
      [] type = "trade_route_minor" -> 12
      [] type = "military_road" -> 10
      [] type = "pilgrim_path" -> 6
      [] OTHER -> 10

\* an elevation is a fraction <<numerator, denominator>>.  A river gives
\* 500 - (index / max(1, total)) * 300; a road gives 200 + random() * 100,
\* for which 200 stands: two road elevations never differ by more than 100
_sample_elevation(type, index, total) ==
    IF IsRiver(type)
    THEN <<500 * Max2(1, total) - 300 * index, Max2(1, total)>>
    ELSE <<200, 1>>

\* abs(a - b) > 100 for two elevations
ElevationJump(a, b) == Abs(a[1] * b[2] - b[1] * a[2]) > 100 * a[2] * b[2]

\* a ConnectorHex; uid tells the objects apart: the index of the hex in the
\* path, below zero for a hex a stretch inserted
ConnectorHex(index, terrain, elevation, connects_to, is_entry_point, uid) ==
    [index |-> index, terrain |-> terrain, elevation |-> elevation,
     connects_to |-> connects_to, is_entry_point |-> is_entry_point, uid |-> uid]

\* connects_to of the hex at index i in a list of n hexes
Chain(i, n) ==
    (IF i > 0 THEN <<i - 1>> ELSE <<>>) \o (IF i < n - 1 THEN <<i + 1>> ELSE <<>>)

_generate_connector_hexes(path, type) ==
    [p \in 1..Len(path) |->
        ConnectorHex(p - 1, _get_base_terrain(type),
                     _sample_elevation(type, p - 1, Len(path)),
                     Chain(p - 1, Len(path)),
                     p - 1 = 0 \/ p - 1 = Len(path) - 1,
                     p - 1)]

\* list.insert(idx, x) and list.pop(idx), idx counted from 0
ListInsert(list, idx, x) ==
    IF idx >= Len(list) THEN Append(list, x)
    ELSE SubSeq(list, 1, idx) \o <<x>> \o SubSeq(list, idx + 1, Len(list))

ListPop(list, idx) == SubSeq(list, 1, idx) \o SubSeq(list, idx + 2, Len(list))

Inserted(list) == {p \in 1..Len(list) : list[p].uid < 0}

\* the loop for j in range(stretch_count), from j on
RECURSIVE Stretched(_, _, _, _, _)
Stretched(list, segment, insert_idx, j, stretch_count) ==
    IF j >= stretch_count THEN list
    ELSE LET stretch_hex ==
                 ConnectorHex(insert_idx + j, segment.stretch_terrain,
                              list[segment.start_hex + 1].elevation, <<>>, FALSE,
                              -(Cardinality(Inserted(list)) + 1))
         IN  Stretched(ListInsert(list, insert_idx + j, stretch_hex), segment,
                       insert_idx, j + 1, stretch_count)

\* the loop for _ in range(remove_count)
RECURSIVE Compressed(_, _, _)
Compressed(list, mid_idx, remove_count) ==
    IF remove_count <= 0 THEN list
    ELSE Compressed(IF mid_idx < Len(list) THEN ListPop(list, mid_idx) ELSE list,
                    mid_idx, remove_count - 1)

ReindexedIndexOnly(list) ==
    [p \in 1..Len(list) |-> [list[p] EXCEPT !.index = p - 1]]

\* the reindex loop at the end of _apply_elastic_segments
Reindexed(list) ==
    [p \in 1..Len(list) |->
        [list[p] EXCEPT !.index = p - 1, !.connects_to = Chain(p - 1, Len(list))]]

\* graph[chex.index] = chex.connects_to.copy(): a later hex of the same
\* index overwrites an earlier one
_build_internal_graph(list) ==
    [i \in {list[p].index : p \in 1..Len(list)} |->
        LET last == CHOOSE p \in 1..Len(list) :
                        /\ list[p].index = i
                        /\ \A o \in 1..Len(list) : list[o].index = i => o <= p
        IN  list[last].connects_to]

MinorAnchorSlot(slot_id, hex_index, required) ==
    [slot_id |-> slot_id, hex_index |-> hex_index, required |-> required]

\* the slots of one hex in the feature loop
FeatureSlotsAt(list, i) ==
    (IF list[i + 1].terrain = "shallow_water"
     THEN <<MinorAnchorSlot(<<"slot_crossing", i>>, i, TRUE)>> ELSE <<>>)
    \o (IF i > 0 /\ ElevationJump(list[i + 1].elevation, list[i].elevation)
        THEN <<MinorAnchorSlot(<<"slot_pass", i>>, i, FALSE)>> ELSE <<>>)

\* the feature loop from index i on; the two ends are passed over
RECURSIVE FeatureSlots(_, _)
FeatureSlots(list, i) ==
    IF i >= Len(list) THEN <<>>
    ELSE (IF i = 0 \/ i = Len(list) - 1 THEN <<>> ELSE FeatureSlotsAt(list, i))
            \o FeatureSlots(list, i + 1)

_generate_anchor_slots(list, type) ==
    IF list = <<>> THEN <<>>
    ELSE LET interval == _get_anchor_interval(type)
             strides == IF Len(list) - 1 > interval
                        THEN (Len(list) - 2) \div interval ELSE 0
         IN  <<MinorAnchorSlot(<<"slot_start">>, 0, FALSE),
               MinorAnchorSlot(<<"slot_end">>, Len(list) - 1, FALSE)>>
             \o [k \in 1..strides |->
                    MinorAnchorSlot(<<"slot", k * interval>>, k * interval, FALSE)]
             \o FeatureSlots(list, 0)

EntryPoint(hex_index, direction, chex) ==
    [hex_index |-> hex_index, direction |-> direction, elevation |-> chex.elevation,
     terrain |-> chex.terrain, is_terminus |-> TRUE]

_create_entry_points(list, type) ==
    IF list = <<>> THEN <<>>
    ELSE <<EntryPoint(0, "start", list[1]),
           EntryPoint(Len(list) - 1, "end", list[Len(list)])>>

\* step 2 of generate
GenerateConnectorHexes ==
    /\ pc = "connector_hexes"
    /\ connector_hexes' = _generate_connector_hexes(path_coords, connector_type)
    /\ pc' = IF elastic_segments # <<>> THEN "segments" ELSE "graph"
    /\ UNCHANGED <<layoutVars, mapVars, fillerVars, connVars, clusterVars, assembleVars>>
    /\ UNCHANGED <<replayVars, validatorVars>>
    /\ UNCHANGED <<connector_type, elastic_segments, segment_at, collection>>

Segment == elastic_segments[segment_at]

CurrentLength == Segment.end_hex - Segment.start_hex + 1

InRange ==
    ~(Segment.start_hex >= Len(connector_hexes) \/ Segment.end_hex >= Len(connector_hexes))

\* one pass of the loop over the segments that changes nothing: an index
\* beyond the list, or a length within the limits
SegmentKeep ==
    /\ pc = "segments"
    /\ segment_at <= Len(elastic_segments)
    /\ \/ ~InRange
       \/ ~(CurrentLength < Segment.min_length) /\ ~(CurrentLength > Segment.max_length)
    /\ segment_at' = segment_at + 1
    /\ UNCHANGED <<pc, layoutVars, mapVars, fillerVars, connVars, clusterVars,
                   assembleVars>>
    /\ UNCHANGED <<replayVars, validatorVars>>
    /\ UNCHANGED <<connector_type, elastic_segments, connector_hexes, collection>>

\* one pass that stretches
SegmentStretch ==
    /\ pc = "segments"
    /\ segment_at <= Len(elastic_segments)
    /\ InRange
    /\ CurrentLength < Segment.min_length
    /\ connector_hexes' =
          Stretched(connector_hexes, Segment, Segment.start_hex + CurrentLength \div 2,
                    0, Segment.min_length - CurrentLength)
    /\ segment_at' = segment_at + 1
    /\ UNCHANGED <<pc, layoutVars, mapVars, fillerVars, connVars, clusterVars,
                   assembleVars>>
    /\ UNCHANGED <<replayVars, validatorVars>>
    /\ UNCHANGED <<connector_type, elastic_segments, collection>>

\* one pass that compresses
SegmentCompress ==
    /\ pc = "segments"
    /\ segment_at <= Len(elastic_segments)
    /\ InRange
    /\ ~(CurrentLength < Segment.min_length)
    /\ CurrentLength > Segment.max_length
    /\ connector_hexes' =
          Compressed(connector_hexes, Segment.start_hex + CurrentLength \div 2,
                     CurrentLength - Segment.max_length)
    /\ segment_at' = segment_at + 1
    /\ UNCHANGED <<pc, layoutVars, mapVars, fillerVars, connVars, clusterVars,
                   assembleVars>>
    /\ UNCHANGED <<replayVars, validatorVars>>
    /\ UNCHANGED <<connector_type, elastic_segments, collection>>

\* the loop over the segments is over: the hexes are reindexed
SegmentsReindex ==
    /\ pc = "segments"
    /\ segment_at > Len(elastic_segments)
    /\ connector_hexes' = Reindexed(connector_hexes)
    /\ pc' = "graph"
    /\ UNCHANGED <<layoutVars, mapVars, fillerVars, connVars, clusterVars, assembleVars>>
    /\ UNCHANGED <<replayVars, validatorVars>>
    /\ UNCHANGED <<connector_type, elastic_segments, segment_at, collection>>

\* steps 4 to 7 of generate
CollectionAssemble ==
    /\ pc = "graph"
    /\ collection' =
          [hexes |-> connector_hexes,
           internal_graph |-> _build_internal_graph(connector_hexes),
           minor_slots |-> _generate_anchor_slots(connector_hexes, connector_type),
           entry_points |-> _create_entry_points(connector_hexes, connector_type)]
    /\ pc' = "collection_done"
    /\ UNCHANGED <<layoutVars, mapVars, fillerVars, connVars, clusterVars, assembleVars>>
    /\ UNCHANGED <<replayVars, validatorVars>>
    /\ UNCHANGED <<connector_type, elastic_segments, connector_hexes, segment_at>>

\* the ElasticSegment values the model draws from: start_hex <= end_hex, the
\* end possibly beyond the list, limits that keep, stretch or compress
ElasticSegments ==
    {[start_hex |-> a, end_hex |-> b, min_length |-> l[1], max_length |-> l[2],
      stretch_terrain |-> "forest"] :
        a \in 0..(MaxPathLen - 1), b \in 0..MaxPathLen,
        l \in {<<1, 1>>, <<2, 2>>, <<1, LongSegment>>, <<LongSegment, LongSegment>>}}

InitCollection ==
    /\ pc = "connector_hexes"
    /\ IdleReplay
    /\ IdleValidator
    /\ IdleLayout
    /\ world_radius = 0
    /\ IdleMap
    /\ IdleFiller
    /\ IdleCluster
    /\ IdleAssemble
    /\ constraint = NoConstraint
    /\ max_deviation = DefaultMaxDeviation
    /\ open_set = {}
    /\ visited = {}
    /\ \E n \in 1..MaxPathLen : path_coords = [p \in 1..n |-> <<p - 1, 0>>]
    /\ connector_type \in ConnectorTypes
    /\ elastic_segments \in
          UNION {[1..n -> {g \in ElasticSegments : g.start_hex <= g.end_hex}] :
                    n \in 0..MaxSegments}
    /\ connector_hexes = <<>>
    /\ segment_at = 1
    /\ collection = NoCollection

NextCollection ==
    \/ GenerateConnectorHexes
    \/ SegmentKeep \/ SegmentStretch \/ SegmentCompress \/ SegmentsReindex
    \/ CollectionAssemble

SpecCollection == InitCollection /\ [][NextCollection]_vars

----------------------------------------------------------------------------
(* C25: in every ConnectorCollection generate returns, for any list of      *)
(* elastic segments, hexes[i].index = i, hexes[i].connects_to is exactly    *)
(* the existing members of {i-1, i+1}, and internal_graph[i] equals         *)
(* hexes[i].connects_to: the graph is a symmetric simple chain.             *)

ChainNeighbors(i, n) == {j \in {i - 1, i + 1} : j >= 0 /\ j <= n - 1}

CollectionIsChain ==
    pc = "collection_done" =>
        LET n == Len(collection.hexes)
        IN  /\ DOMAIN collection.internal_graph = 0..(n - 1)
            /\ \A p \in 1..n :
                LET chex == collection.hexes[p]
                IN  /\ chex.index = p - 1
                    /\ Values(chex.connects_to) = ChainNeighbors(p - 1, n)
                    /\ Len(chex.connects_to) = Cardinality(ChainNeighbors(p - 1, n))
                    /\ collection.internal_graph[p - 1] = chex.connects_to

\* a collection one segment stretched and another compressed
CollectionIsChainWitness ==
    /\ pc = "collection_done"
    /\ Len(collection.hexes) >= 3
    /\ Inserted(collection.hexes) # {}
    /\ \E i \in 0..(Len(path_coords) - 1) :
          \A p \in 1..Len(collection.hexes) : collection.hexes[p].uid # i

----------------------------------------------------------------------------
(* C26: when an elastic segment longer than its max_length is compressed,   *)
(* exactly length - max_length hexes are removed and each removed hex lies  *)
(* strictly inside the segment; the hexes at or outside the ends of the     *)
(* segment, the last hex of the connector among them, stay as they are.     *)

CompressRemovesInterior ==
    [][(/\ pc = "segments"
        /\ segment_at <= Len(elastic_segments)
        /\ InRange
        /\ ~(CurrentLength < Segment.min_length)
        /\ CurrentLength > Segment.max_length)
       => LET removed == CurrentLength - Segment.max_length
          IN  /\ Len(connector_hexes') = Len(connector_hexes) - removed
              /\ \A p \in 1..Len(connector_hexes) :
                    /\ p - 1 <= Segment.start_hex
                          => /\ p \in DOMAIN connector_hexes'
                             /\ connector_hexes'[p] = connector_hexes[p]
                    /\ p - 1 >= Segment.end_hex
                          => /\ p - removed \in DOMAIN connector_hexes'
                             /\ connector_hexes'[p - removed] = connector_hexes[p]]_vars

----------------------------------------------------------------------------
(* C27: for every hex of a generated connector whose terrain is shallow     *)
(* water, minor_slots holds a slot at the index of the hex with             *)
(* required = true; minor_slots always holds a slot at index 0 and a slot   *)
(* at the last index.                                                       *)

SlotAt(hex_index) ==
    {k \in 1..Len(collection.minor_slots) :
        collection.minor_slots[k].hex_index = hex_index}

WaterCrossingsRequired ==
    pc = "collection_done" =>
        LET n == Len(collection.hexes)
        IN  /\ SlotAt(0) # {}
            /\ SlotAt(n - 1) # {}
            /\ \A p \in 1..n :
                  collection.hexes[p].terrain = "shallow_water"
                      => \E k \in SlotAt(p - 1) : collection.minor_slots[k].required

----------------------------------------------------------------------------
(* C30: in every ConnectorCollection generate returns, with or without      *)
(* elastic segments, a hex has is_entry_point = true exactly when it is the *)
(* first or the last hex of the sequence, in agreement with the             *)
(* entry_points list (hex_index 0 and n - 1).                               *)

EntryFlagsAtEnds ==
    pc = "collection_done" =>
        LET n == Len(collection.hexes)
        IN  /\ {collection.entry_points[k].hex_index :
                    k \in 1..Len(collection.entry_points)} = {0, n - 1}
            /\ \A p \in 1..n :
                  collection.hexes[p].is_entry_point <=> (p = 1 \/ p = n)

====
